---- MODULE Spec2Model ----
(***************************************************************************)
(* Dynamic query specification engine of gestao_conhecimento_back:         *)
(* filter / sort / include / select parameters compiled against the        *)
(* SQLAlchemy schema (api/utils/crud_utils.py, api/utils/query_parser.py,  *)
(* api/utils/utils_bd.py) and driven by BaseService (api/v1/_shared).      *)
(*                                                                         *)
(* Strings are sequences of symbols.  A symbol is either one of the        *)
(* punctuation characters  . , [ ] and blank, or an identifier chunk (a    *)
(* maximal run of characters none of which is punctuation).  Splitting,    *)
(* trimming, joining and the two regular expressions of the code are       *)
(* computed on those sequences.                                            *)
(***************************************************************************)
EXTENDS Integers, Sequences, FiniteSets, TLC

VARIABLES
    pc,         \* position of the request in its handler
    req,        \* the inputs of the call or request being served
    filters,    \* the filter map built by parse_filters
    query,      \* the Select under construction (joins, where, order, options)
    tree,       \* the Selection Tree built from the select parameter
    result,     \* what the call returns or raises / the HTTP response
    db,         \* the committed rows of the tables usuario, weblink and
                \* password_reset_token
    issued,     \* the users holding an access token that has not expired
    calls       \* the confirm_password_reset calls in flight, one session each

vars == <<pc, req, filters, query, tree, result, db, issued, calls>>

\* the part of the state a single stateless call never touches
store == <<db, issued, calls>>

None == [t |-> "none"]

\* the stateless calls run against no stored state of their own
NoStore == db = << >> /\ issued = {} /\ calls = << >>

----------------------------------------------------------------------------
(* Bounds *)

MaxDepth == 3       \* longest dotted specifier drawn as an input
MaxParams == 2      \* most query parameters in one request
MaxPaths == 2       \* most comma-separated paths in one select parameter
MaxIncludes == 2    \* most comma-separated names in one include parameter
MaxSelDepth == 2    \* longest dotted path drawn for a select parameter
MaxOps == 2         \* most operators in the operator dict of one filter field
MaxRawLen == 3      \* most symbols in a select parameter drawn symbol by symbol

----------------------------------------------------------------------------
(* Strings *)

Punct == {".", ",", "[", "]", " "}

S(x) == <<x>>

RECURSIVE Range(_)
Range(s) == IF s = <<>> THEN {} ELSE {Head(s)} \cup Range(Tail(s))

RECURSIVE SplitAcc(_, _, _)
\* str.split(sep): the pieces between occurrences of sep, empty pieces kept
SplitAcc(s, sep, cur) ==
    IF s = <<>> THEN <<cur>>
    ELSE IF Head(s) = sep THEN <<cur>> \o SplitAcc(Tail(s), sep, <<>>)
    ELSE SplitAcc(Tail(s), sep, Append(cur, Head(s)))

Split(s, sep) == SplitAcc(s, sep, <<>>)

RECURSIVE LStrip(_)
LStrip(s) == IF s # <<>> /\ Head(s) = " " THEN LStrip(Tail(s)) ELSE s

RECURSIVE RStrip(_)
RStrip(s) ==
    IF s # <<>> /\ s[Len(s)] = " " THEN RStrip(SubSeq(s, 1, Len(s) - 1)) ELSE s

\* str.strip()
Strip(s) == RStrip(LStrip(s))

RECURSIVE Join(_, _)
\* sep.join(list)
Join(list, sep) ==
    IF list = <<>> THEN <<>>
    ELSE IF Len(list) = 1 THEN list[1]
    ELSE list[1] \o <<sep>> \o Join(Tail(list), sep)

\* str.lower() on one symbol: the upper-case spellings used as inputs
LowerSym(c) ==
    CASE c = "TRUE" -> "true"
      [] c = "True" -> "true"
      [] c = "YES" -> "yes"
      [] c = "On" -> "on"
      [] c = "FALSE" -> "false"
      [] c = "NULL" -> "null"
      [] c = "None" -> "none"
      [] c = "EQ" -> "eq"
      [] c = "ISNULL" -> "isnull"
      [] c = "IN" -> "in"
      [] OTHER -> c

Lower(s) == [i \in 1..Len(s) |-> LowerSym(s[i])]

----------------------------------------------------------------------------
(* Schema registry: the mapped classes of api/v1/_database/models.py *)

Entities == {"Usuario", "WebLink", "PasswordResetToken"}

BaseColumns == {"id", "created_at", "updated_at", "flg_ativo", "flg_excluido"}

Columns(e) ==
    CASE e = "Usuario" -> BaseColumns \cup {"nome", "email", "senha", "permissoes"}
      [] e = "WebLink" ->
            BaseColumns \cup {"weblink", "title", "resumo", "usuario_id"}
      [] e = "PasswordResetToken" ->
            BaseColumns \cup {"usuario_id", "token", "expires_at", "used"}
      [] e = "Aula" -> BaseColumns

\* the entity get_validated_load_options names (crud_utils.py 263-266); no
\* class Aula is mapped in models.py, the engine takes any mapped class
AulaRelationships ==
    [r \in {"aulas_livros", "livros"} |->
        IF r = "livros" THEN "Livro" ELSE "AulaLivro"]

\* relationship name -> target entity
Relationships(e) ==
    CASE e = "Usuario" -> [r \in {"web_links"} |-> "WebLink"]
      [] e = "WebLink" -> [r \in {"usuario"} |-> "Usuario"]
      [] e = "PasswordResetToken" -> [r \in {"usuario"} |-> "Usuario"]
      [] e = "Aula" -> AulaRelationships

RelKeys(e) == DOMAIN Relationships(e)

\* class attributes every declarative class has that are neither columns
\* nor relationships (hasattr is true, there is no .property on them)
OtherAttrs == {"metadata", "registry", "__tablename__"}

\* hasattr(current_model, part)
HasAttr(e, part) ==
    /\ Len(part) = 1
    /\ part[1] \in Columns(e) \cup RelKeys(e) \cup OtherAttrs

\* the relationship map a service hands to the engine
ServiceRelationMap(e) ==
    CASE e = "Usuario" -> [r \in {"web_links"} |-> <<"Usuario", r>>]
      [] e = "WebLink" -> [r \in {"usuario"} |-> <<"WebLink", r>>]
      [] e = "Aula" -> [r \in DOMAIN AulaRelationships |-> <<"Aula", r>>]
      [] OTHER -> << >>

----------------------------------------------------------------------------
(* Path resolver: crud_utils._get_column_or_relationship *)

Fail(kind, cls) == [err |-> kind, exc |-> cls]

\* line 74-76 checked at every level instead of the first only
BaseRelationAllowedEveryLevel(rmap, name, i) == name \in DOMAIN rmap

\* lines 74-76: only a first-level relationship must be in relations_map
BaseRelationAllowed(rmap, name, i) == i # 1 \/ name \in DOMAIN rmap

\* line 82 without the advance to the related class
NextModelStays(model, name) == model

\* line 82: current_model = attr.property.mapper.class_
NextModel(model, name) == Relationships(model)[name]

\* lines 77-80: the join recorded for one relationship segment
JoinFor(rmap, model, name, i) == IF i = 1 THEN rmap[name] ELSE <<model, name>>

\* one iteration of the loop over the parts; st carries the locals
ResolveStep(base, parts, rmap, st, i) ==
    LET part == parts[i]
        last == (i = Len(parts))
    IN  IF ~HasAttr(st.model, part)
        THEN [st EXCEPT !.res = Fail("UnknownField", "ValueError")]
        ELSE LET name == part[1] IN
             IF name \in OtherAttrs
             THEN \* attr.property does not exist
                  [st EXCEPT !.res = Fail("NoProperty", "AttributeError")]
             ELSE IF name \in RelKeys(st.model)
             THEN IF last
                  THEN [st EXCEPT !.res =
                            Fail("RelationshipAsTerminal", "ValueError")]
                  ELSE IF ~BaseRelationAllowed(rmap, name, i)
                  THEN [st EXCEPT !.res =
                            Fail("UnmappedBaseRelationship", "ValueError")]
                  ELSE [st EXCEPT
                          !.joins = Append(@, JoinFor(rmap, st.model, name, i)),
                          !.model = NextModel(st.model, name)]
             ELSE IF ~last
                  THEN [st EXCEPT !.res =
                            Fail("RelationshipAsTerminal", "ValueError")]
                  ELSE [st EXCEPT !.target = <<st.model, name>>,
                                  !.done = TRUE]

RECURSIVE ResolveLoop(_, _, _, _, _)
ResolveLoop(base, parts, rmap, st, i) ==
    IF i > Len(parts) \/ st.done \/ st.res.err # "none" THEN st
    ELSE ResolveLoop(base, parts, rmap,
                     ResolveStep(base, parts, rmap, st, i), i + 1)

\* _get_column_or_relationship(model_cls, field_specifier, relations_map)
GetColumnOrRelationship(base, spec, rmap) ==
    LET parts == Split(spec, ".")
        st0 == [model |-> base, joins |-> <<>>, target |-> <<>>,
                done |-> FALSE, res |-> Fail("none", "none")]
        st == ResolveLoop(base, parts, rmap, st0, 1)
    IN  IF st.res.err # "none" THEN [err |-> st.res.err, exc |-> st.res.exc]
        ELSE IF ~st.done THEN [err |-> "Unresolved", exc |-> "ValueError"]
        ELSE [err |-> "none", exc |-> "none", column |-> st.target,
              model |-> st.model, joins |-> st.joins]

----------------------------------------------------------------------------
(* Python values and insertion-ordered dicts *)

VBool(b) == [t |-> "bool", b |-> b]
VStr(s) == [t |-> "str", s |-> s]
VList(l) == [t |-> "list", l |-> l]
VTuple(l) == [t |-> "tuple", l |-> l]
VUuid(u) == [t |-> "uuid", u |-> u]

\* a dict is the sequence of its <<key, value>> items in insertion order
DictKeys(d) == {d[i][1] : i \in 1..Len(d)}

DictGet(d, k) == LET i == CHOOSE i \in 1..Len(d) : d[i][1] = k IN d[i][2]

\* d[k] = v : a present key keeps its position
DictSet(d, k, v) ==
    IF k \in DictKeys(d)
    THEN [i \in 1..Len(d) |-> IF d[i][1] = k THEN <<k, v>> ELSE d[i]]
    ELSE Append(d, <<k, v>>)

----------------------------------------------------------------------------
(* Filter grammar: query_parser.py *)

\* _parse_filter_value(value)
ParseFilterValue(value) ==
    LET value_lower == Lower(value) IN
    IF value_lower \in {S("true"), S("yes"), S("on"), S("1")} THEN VBool(TRUE)
    ELSE IF value_lower \in {S("false"), S("no"), S("off"), S("0")}
         THEN VBool(FALSE)
    ELSE IF value_lower \in {S("null"), S("none")} THEN None
    ELSE VStr(value)

\* positions of the "]" that can close the first group of
\* filter\[(.+?)\]\[(.+?)\] in a full match of key
FilterKeySplits(key) ==
    {i \in 4..(Len(key) - 3) :
        /\ key[1] = "filter" /\ key[2] = "["
        /\ key[i] = "]" /\ key[i + 1] = "["
        /\ key[Len(key)] = "]"}

\* FILTER_PATTERN.fullmatch(key): the lazy first group ends at the first
\* position that lets the rest match
FilterKeyMatch(key) ==
    IF FilterKeySplits(key) = {} THEN [matched |-> FALSE]
    ELSE LET i == CHOOSE i \in FilterKeySplits(key) :
                     \A j \in FilterKeySplits(key) : i <= j
         IN  [matched |-> TRUE,
              field |-> SubSeq(key, 3, i - 1),
              operator |-> SubSeq(key, i + 2, Len(key) - 1)]

\* lines 28-29: if key in processed_keys: continue
SeenBefore(processed_keys, key) == key \in processed_keys

\* a key outside the grammar kept as a field with the operator eq
ParseFiltersStepKeepAll(st, item) ==
    [filters |-> DictSet(st.filters, item[1],
                         <<<<S("eq"), ParseFilterValue(item[2])>>>>),
     processed_keys |-> st.processed_keys \cup {item[1]}]

\* one iteration of the loop over query_params.multi_items()
ParseFiltersStep(st, item) ==
    LET key == item[1]
        value == item[2]
        m == FilterKeyMatch(key)
    IN  IF SeenBefore(st.processed_keys, key) THEN st
        ELSE IF ~m.matched THEN st
        ELSE LET field_specifier == m.field
                 operator == Lower(m.operator)
                 ops == IF field_specifier \in DictKeys(st.filters)
                        THEN DictGet(st.filters, field_specifier) ELSE <<>>
             IN  [filters |-> DictSet(st.filters, field_specifier,
                                      DictSet(ops, operator,
                                              ParseFilterValue(value))),
                  processed_keys |-> st.processed_keys \cup {key}]

RECURSIVE ParseFiltersLoop(_, _)
ParseFiltersLoop(st, items) ==
    IF items = <<>> THEN st
    ELSE ParseFiltersLoop(ParseFiltersStep(st, Head(items)), Tail(items))

\* parse_filters(query_params)
ParseFiltersOf(items) ==
    ParseFiltersLoop([filters |-> <<>>, processed_keys |-> {}], items).filters

----------------------------------------------------------------------------
(* Predicate compiler: crud_utils.apply_filters *)

\* the keys of OPERATOR_MAP
OPERATOR_MAP ==
    {S(o) : o \in {"eq", "neq", "lt", "lte", "gt", "gte", "in", "notin",
                   "like", "ilike", "isnull", "contains", "startswith",
                   "endswith"}}

\* _parse_bool(value)
ParseBool(value) ==
    IF value.t = "bool" THEN value.b
    ELSE IF value.t = "str"
         THEN Lower(value.s) \in {S("true"), S("yes"), S("1"), S("on")}
    ELSE IF value.t \in {"list", "tuple"} THEN value.l # <<>>
    ELSE value.t = "uuid"

\* the polarity of isnull fixed, whatever the value
IsNullFixed(column, v) == [col |-> column, op |-> "is_null", val |-> None]

\* OPERATOR_MAP['isnull']
IsNull(column, v) ==
    [col |-> column,
     op |-> IF ParseBool(v) THEN "is_null" ELSE "is_not_null",
     val |-> None]

\* OPERATOR_MAP[op](c, v): the SQL expression built for one clause
OpFunc(op, column, v) ==
    IF op = S("isnull") THEN IsNull(column, v)
    ELSE [col |-> column, op |-> op[1], val |-> v]

RECURSIVE StripDropEmpty(_)
StripDropEmpty(items) ==
    IF items = <<>> THEN <<>>
    ELSE (IF Strip(Head(items)) # <<>> THEN <<Strip(Head(items))>> ELSE <<>>)
         \o StripDropEmpty(Tail(items))

\* lines 161-166 with the string handed on as it is
CoerceListRaw(op, value) ==
    IF op \in {S("in"), S("notin")} /\ value.t \notin {"list", "tuple", "str"}
    THEN [err |-> "InvalidOperatorValue", val |-> value]
    ELSE [err |-> "none", val |-> value]

\* lines 161-166: the value handed to in / notin
CoerceList(op, value) ==
    IF op \in {S("in"), S("notin")} /\ value.t \notin {"list", "tuple"}
    THEN IF value.t = "str"
         THEN [err |-> "none", val |-> VList(StripDropEmpty(Split(value.s, ",")))]
         ELSE [err |-> "InvalidOperatorValue", val |-> value]
    ELSE [err |-> "none", val |-> value]

EmptySelect == [joins |-> <<>>, where |-> <<>>, order |-> <<>>, options |-> <<>>]

\* query.join(rel_prop) without isouter: an inner join
QueryJoinInner(q, rel_prop) ==
    [q EXCEPT !.joins = Append(@, [rel |-> rel_prop, isouter |-> FALSE])]

\* lines 144, 223: query.join(rel_prop, isouter=True); Select.join appends
\* to the statement's joins and never looks for an equal one
QueryJoin(q, rel_prop) ==
    [q EXCEPT !.joins = Append(@, [rel |-> rel_prop, isouter |-> TRUE])]

\* the value of a compiled predicate on a NULL column: c.is_(None) and
\* c == None (rendered IS NULL) are true, c.notin_([]) is true of everything,
\* every other comparison with NULL is not true
NullColumnAdmits(p) ==
    \/ p.op = "is_null"
    \/ p.op = "eq" /\ p.val = None
    \/ p.op = "notin" /\ p.val.t \in {"list", "tuple"} /\ p.val.l = <<>>

\* a base row with no related record passes the statement: a LEFT OUTER
\* JOIN keeps it with the columns of the relationship NULL, an inner join
\* drops it; the predicates listed are those on columns behind joins
AdmitsUnrelated(q, nested) ==
    /\ \A i \in 1..Len(q.joins) : q.joins[i].isouter
    /\ \A i \in nested : NullColumnAdmits(q.where[i])

RECURSIVE QueryJoinAll(_, _)
QueryJoinAll(q, joins_to_apply) ==
    IF joins_to_apply = <<>> THEN q
    ELSE QueryJoinAll(QueryJoin(q, Head(joins_to_apply)), Tail(joins_to_apply))

\* an operator missing from OPERATOR_MAP is skipped
UnsupportedOperatorSkipped(st, op_code) == st

\* lines 152-153: an operator missing from OPERATOR_MAP
UnsupportedOperator(st, op_code) ==
    [st EXCEPT !.res = Fail("UnsupportedOperator", "ValueError")]

\* lines 150-175: one operator of one field
ApplyOperator(st, target_column, op_code, value) ==
    LET op == Lower(op_code) IN
    IF op \notin OPERATOR_MAP THEN UnsupportedOperator(st, op_code)
    ELSE LET c == CoerceList(op, value) IN
         IF c.err # "none" THEN [st EXCEPT !.res = Fail(c.err, "ValueError")]
         ELSE [st EXCEPT !.query.where =
                             Append(@, OpFunc(op, target_column, c.val))]

RECURSIVE ApplyOperators(_, _, _)
ApplyOperators(st, target_column, operators) ==
    IF operators = <<>> \/ st.res.err # "none" THEN st
    ELSE ApplyOperators(
            ApplyOperator(st, target_column, Head(operators)[1],
                          Head(operators)[2]),
            target_column, Tail(operators))

\* lines 123-175: one field of the filter map
ApplyField(st, model_cls, field_specifier, operators, relations_map) ==
    LET r == GetColumnOrRelationship(model_cls, field_specifier, relations_map)
    IN  IF r.err # "none" THEN [st EXCEPT !.res = Fail(r.err, r.exc)]
        ELSE ApplyOperators(
                [st EXCEPT !.query = QueryJoinAll(@, r.joins)],
                r.column, operators)

RECURSIVE ApplyFieldsLoop(_, _, _, _)
ApplyFieldsLoop(st, model_cls, filter_params, relations_map) ==
    IF filter_params = <<>> \/ st.res.err # "none" THEN st
    ELSE ApplyFieldsLoop(
            ApplyField(st, model_cls, Head(filter_params)[1],
                       Head(filter_params)[2], relations_map),
            model_cls, Tail(filter_params), relations_map)

\* apply_filters(query, model_cls, filter_params, relations_map): the new
\* query, or the exception raised
ApplyFiltersOf(q, model_cls, filter_params, relations_map) ==
    LET st == ApplyFieldsLoop([query |-> q, res |-> Fail("none", "none")],
                              model_cls, filter_params, relations_map)
    IN  IF st.res.err # "none" THEN [err |-> st.res.err, exc |-> st.res.exc]
        ELSE [err |-> "none", exc |-> "none", query |-> st.query]

----------------------------------------------------------------------------
(* Sort compiler: crud_utils.apply_sorting *)

\* apply_sorting with the direction examined before sort_by
ApplySortingDirectionFirst(q, model_cls, sort_by, sort_dir, relations_map) ==
    IF sort_dir # None /\ Lower(sort_dir.s) \notin {<<>>, S("asc"), S("desc")}
    THEN Fail("InvalidSortDirection", "ValueError")
    ELSE [err |-> "none", exc |-> "none", query |-> q]

\* apply_sorting(query, model_cls, sort_by, sort_dir, relations_map);
\* sort_by and sort_dir are None or VStr
ApplySortingOf(q, model_cls, sort_by, sort_dir, relations_map) ==
    IF sort_by = None \/ sort_by.s = <<>>
    THEN [err |-> "none", exc |-> "none", query |-> q]
    ELSE LET direction == IF sort_dir = None \/ sort_dir.s = <<>>
                          THEN S("asc") ELSE Lower(sort_dir.s)
         IN  IF direction \notin {S("asc"), S("desc")}
             THEN Fail("InvalidSortDirection", "ValueError")
             ELSE LET r == GetColumnOrRelationship(model_cls, sort_by.s,
                                                   relations_map)
                  IN  IF r.err # "none" THEN Fail(r.err, r.exc)
                      ELSE [err |-> "none", exc |-> "none",
                            query |->
                              [QueryJoinAll(q, r.joins) EXCEPT !.order =
                                  Append(@, [col |-> r.column,
                                             dir |-> direction[1]])]]

----------------------------------------------------------------------------
(* Load planner: crud_utils.get_validated_load_options and
   utils_bd.apply_select_load_options *)

RECURSIVE SetToSeq(_)
SetToSeq(X) ==
    IF X = {} THEN <<>>
    ELSE LET x == CHOOSE x \in X : TRUE IN <<x>> \o SetToSeq(X \ {x})

RECURSIVE ValidatedLoop(_, _, _, _)
\* lines 259-273 of crud_utils.py: the loop over include
ValidatedLoop(model_cls, relations_map, include, st) ==
    IF include = <<>> THEN st
    ELSE LET relation_name == Head(include)
             known == Len(relation_name) = 1
                        /\ relation_name[1] \in DOMAIN relations_map
             skipped == model_cls = "Aula" /\ relation_name = S("aulas_livros")
         IN  ValidatedLoop(model_cls, relations_map, Tail(include),
                IF known /\ skipped THEN st
                ELSE IF known
                THEN [st EXCEPT !.load_options =
                        Append(@, [rel |-> relations_map[relation_name[1]],
                                   strategy |-> "selectinload"])]
                ELSE [st EXCEPT !.invalid_includes = Append(@, relation_name)])

\* get_validated_load_options(model_cls, relations_map, include)
GetValidatedLoadOptions(model_cls, relations_map, include) ==
    LET st == ValidatedLoop(model_cls, relations_map, include,
                            [load_options |-> <<>>, invalid_includes |-> <<>>])
    IN  IF include = <<>>
        THEN [err |-> "none", exc |-> "none", options |-> <<>>]
        ELSE IF st.invalid_includes # <<>>
        THEN Fail("InvalidInclude", "ValueError")
        ELSE [err |-> "none", exc |-> "none", options |-> st.load_options]

\* the index of the first "]" of s, 0 when there is none
FirstClose(s) ==
    IF \E i \in 1..Len(s) : s[i] = "]"
    THEN CHOOSE i \in 1..Len(s) :
            s[i] = "]" /\ \A j \in 1..(i - 1) : s[j] # "]"
    ELSE 0

\* lines 540-550 of utils_bd.py: the relationship named by one path, if any
RelationshipOfPath(field_path, model_relation_keys) ==
    IF Head(field_path) = "[" /\ FirstClose(field_path) > 0
    THEN \* re.match(r"\[([^\]]+)\]", field_path)
         IF FirstClose(field_path) > 2
         THEN {SubSeq(field_path, 2, FirstClose(field_path) - 1)}
         ELSE {}
    ELSE LET base_name == Split(field_path, ".")[1]
         IN  IF Len(base_name) = 1 /\ base_name[1] \in model_relation_keys
             THEN {base_name} ELSE {}

\* extract_relationships_from_select_hybrid(select_param, keys);
\* select_param is None or VStr
ExtractRelationships(select_param, model_relation_keys) ==
    IF select_param = None \/ select_param.s = <<>> THEN {}
    ELSE LET raw_fields == StripDropEmpty(Split(select_param.s, ","))
         IN  UNION {RelationshipOfPath(raw_fields[i], model_relation_keys) :
                        i \in 1..Len(raw_fields)}

\* lines 452-458: selectinload for a requested relationship, noload otherwise
LoadStrategy(rel_name, relations_to_load) ==
    IF S(rel_name) \in relations_to_load THEN "selectinload" ELSE "noload"

\* apply_select_load_options(query, model_cls, include_param)
ApplySelectLoadOptions(q, model_cls, include_param) ==
    LET model_relation_keys == RelKeys(model_cls)
        relations_to_load ==
            ExtractRelationships(include_param, model_relation_keys)
        keys == SetToSeq(model_relation_keys)
    IN  [q EXCEPT !.options = @ \o
            [i \in 1..Len(keys) |->
                [rel |-> <<model_cls, keys[i]>>,
                 strategy |-> LoadStrategy(keys[i], relations_to_load)]]]

\* the strategy in force for a relationship: the last option given for it
EffectiveStrategy(q, rel) ==
    LET idx == {i \in 1..Len(q.options) : q.options[i].rel = rel}
    IN  IF idx = {} THEN "default"
        ELSE q.options[CHOOSE i \in idx : \A j \in idx : j <= i].strategy

----------------------------------------------------------------------------
(* Selection tree: utils_bd.parse_select_fields_for_pydantic *)

Leaf == [t |-> "leaf"]
Dict(d) == [t |-> "dict", d |-> d]
EmptyDict == << >>
ALL == S("__all__")

IsDict(d, k) == k \in DOMAIN d /\ d[k].t = "dict"

RECURSIVE DictAt(_, _)
\* the dict a chain of keys leads to from the root
DictAt(root, path) ==
    IF path = <<>> THEN root ELSE DictAt(root[Head(path)].d, Tail(path))

RECURSIVE SetAt(_, _, _, _)
\* the root after level[key] = node, level being the dict at path
SetAt(root, path, key, node) ==
    IF path = <<>> THEN (key :> node) @@ root
    ELSE (Head(path) :>
            Dict(SetAt(root[Head(path)].d, Tail(path), key, node))) @@ root

\* identifier chunks holding a character outside [a-zA-Z0-9_]
NonWordSyms == {"a-b", "%a%"}

\* list_part_regex.fullmatch(part)
ListMatch(part) ==
    /\ Len(part) = 3 /\ part[1] = "[" /\ part[3] = "]"
    /\ part[2] \notin Punct \cup NonWordSyms

\* lines 392-407 without the "__all__" level
BracketPartFlat(st, part, is_last_part) ==
    LET list_name == S(part[2])
        level == DictAt(st.root, st.cur)
    IN  IF is_last_part
        THEN [st EXCEPT !.root = SetAt(@, st.cur, list_name, Leaf)]
        ELSE [root |-> IF IsDict(level, list_name) THEN st.root
                       ELSE SetAt(st.root, st.cur, list_name, Dict(EmptyDict)),
              cur |-> Append(st.cur, list_name), stop |-> FALSE]

\* lines 392-407: a part of the form [name]
BracketPart(st, part, is_last_part) ==
    LET list_name == S(part[2])
        level == DictAt(st.root, st.cur)
        r1 == IF IsDict(level, list_name) THEN st.root
              ELSE SetAt(st.root, st.cur, list_name, Dict(EmptyDict))
        inner == Append(st.cur, list_name)
        r2 == IF IsDict(DictAt(r1, inner), ALL) THEN r1
              ELSE SetAt(r1, inner, ALL, Dict(EmptyDict))
    IN  IF is_last_part
        THEN [root |-> SetAt(r2, inner, ALL, Leaf), cur |-> st.cur,
              stop |-> TRUE]
        ELSE [root |-> r2, cur |-> Append(inner, ALL), stop |-> FALSE]

\* lines 409-416 without the leaf of a final part
BarePartNoLeaf(st, part, is_last_part) ==
    LET level == DictAt(st.root, st.cur) IN
    IF is_last_part THEN st
    ELSE [root |-> IF IsDict(level, part) THEN st.root
                   ELSE SetAt(st.root, st.cur, part, Dict(EmptyDict)),
          cur |-> Append(st.cur, part), stop |-> FALSE]

\* lines 409-416: a bare part
BarePart(st, part, is_last_part) ==
    LET level == DictAt(st.root, st.cur) IN
    IF is_last_part
    THEN [st EXCEPT !.root = IF IsDict(level, part) THEN @
                             ELSE SetAt(@, st.cur, part, Leaf)]
    ELSE [root |-> IF IsDict(level, part) THEN st.root
                   ELSE SetAt(st.root, st.cur, part, Dict(EmptyDict)),
          cur |-> Append(st.cur, part), stop |-> FALSE]

RECURSIVE PartsLoop(_, _, _)
\* lines 387-416: the loop over the parts of one path
PartsLoop(st, parts, i) ==
    IF i > Len(parts) \/ st.stop THEN st
    ELSE PartsLoop(
            IF ListMatch(parts[i])
            THEN BracketPart(st, parts[i], i = Len(parts))
            ELSE BarePart(st, parts[i], i = Len(parts)),
            parts, i + 1)

RECURSIVE PathsLoop(_, _)
\* lines 383-416: the loop over the paths
PathsLoop(root, fields_to_process) ==
    IF fields_to_process = <<>> THEN root
    ELSE PathsLoop(
            PartsLoop([root |-> root, cur |-> <<>>, stop |-> FALSE],
                      Split(Head(fields_to_process), "."), 1).root,
            Tail(fields_to_process))

\* parse_select_fields_for_pydantic(select_str): None or Dict(tree)
ParseSelectFields(select_str) ==
    IF select_str = None \/ select_str.s = <<>> THEN None
    ELSE LET fields_to_process == StripDropEmpty(Split(select_str.s, ","))
         IN  IF fields_to_process = <<>> THEN None
             ELSE LET include_dict == PathsLoop(EmptyDict, fields_to_process)
                  IN  IF DOMAIN include_dict = {} THEN None
                      ELSE Dict(include_dict)

----------------------------------------------------------------------------
(* Projection: generic_schema.model_validate(item.__dict__)
   .model_dump(include=tree), base_service.py 103-107 and 181-187 *)

Sc(v) == [t |-> "scalar", v |-> v]
Li(l) == [t |-> "list", l |-> l]
Ob(o) == [t |-> "obj", o |-> o]

\* the fields of the generic schema of a service (schemas.py)
GenericFields(e) ==
    CASE e = "Usuario" ->
            {"flg_ativo", "flg_excluido", "nome", "email", "senha", "permissoes"}
      [] e = "WebLink" ->
            {"flg_ativo", "flg_excluido", "weblink", "resumo", "usuario_id"}
      [] OTHER -> {}

\* model_validate(d): declared fields only, extra keys ignored; every field
\* of the generic schemas has a default
ModelValidate(e, d) ==
    [f \in GenericFields(e) |-> IF f \in DOMAIN d THEN d[f] ELSE None]

\* model_dump(include=inc) of a model whose fields are scalars: the fields
\* that are keys of inc; inc = None dumps every field
ModelDump(view, inc) ==
    IF inc = None THEN view
    ELSE [f \in {f \in DOMAIN view : S(f) \in DOMAIN inc.d} |-> view[f]]

\* the owner of a stored link: w3 belongs to another user
OwnerOf(id) == IF id = "w3" THEN "u2" ELSE "u1"

\* the rows a stored WebLink / Usuario loads to; a relationship under noload
\* is left empty, under selectinload (explicit or the mapping's lazy="selectin")
\* it is populated one level deep
WebLinkColumnsOf(id) ==
    [c \in Columns("WebLink") |->
        Sc(IF c = "usuario_id" THEN OwnerOf(id) ELSE <<id, c>>)]

UsuarioColumnsOf(id) == [c \in Columns("Usuario") |-> Sc(<<id, c>>)]

RowOf(e, strategy) ==
    IF e = "Usuario"
    THEN UsuarioColumnsOf("u1") @@
         [r \in {"web_links"} |->
            Li(IF strategy = "noload" THEN <<>>
               ELSE <<Ob(WebLinkColumnsOf("w1")), Ob(WebLinkColumnsOf("w2"))>>)]
    ELSE WebLinkColumnsOf("w1") @@
         [r \in {"usuario"} |->
            IF strategy = "noload" THEN None ELSE Ob(UsuarioColumnsOf("u1"))]

\* the stored link of the other user
OtherLinkRow(strategy) ==
    WebLinkColumnsOf("w3") @@
    [r \in {"usuario"} |->
        IF strategy = "noload" THEN None ELSE Ob(UsuarioColumnsOf("u2"))]

\* the stored rows of an entity, in table order
StoredRows(e, strategy) ==
    IF e = "WebLink" THEN <<RowOf(e, strategy), OtherLinkRow(strategy)>>
    ELSE <<RowOf(e, strategy)>>

\* an equality on usuario_id decides whether a row passes; the other
\* predicates may or may not hold of a row
OwnerAdmits(p, row) ==
    (p.col = <<"WebLink", "usuario_id">> /\ p.op = "eq") =>
        CASE p.val.t = "uuid" -> row.usuario_id.v = p.val.u
          [] p.val.t = "str" -> S(row.usuario_id.v) = p.val.s
          [] OTHER -> FALSE

\* the subsequence of rows at the indexes of I
RECURSIVE RowsAt(_, _, _)
RowsAt(rows, I, i) ==
    IF i > Len(rows) THEN <<>>
    ELSE (IF i \in I THEN <<rows[i]>> ELSE <<>>) \o RowsAt(rows, I, i + 1)

\* what the database can answer to the compiled statement: stored rows that
\* pass every usuario_id equality of the WHERE clause, in table order, at
\* most one when the statement selects by id
ResultSets(e, q) ==
    LET rel == <<e, CHOOSE r \in RelKeys(e) : TRUE>>
        rows == StoredRows(e, EffectiveStrategy(q, rel))
        passing == {i \in 1..Len(rows) :
                       \A k \in 1..Len(q.where) : OwnerAdmits(q.where[k], rows[i])}
        by_id == \E k \in 1..Len(q.where) :
                    q.where[k].col = <<e, "id">> /\ q.where[k].op = "eq"
    IN  {RowsAt(rows, I, 1) :
            I \in {J \in SUBSET passing : by_id => Cardinality(J) <= 1}}

----------------------------------------------------------------------------
(* Mapper path: BaseMapper.map_to_view *)

\* the sensitive_fields a mapper is built with
SensitiveFields(e) == IF e = "Usuario" THEN {"senha"} ELSE {}

\* the fields of the view schema of an entity (schemas.py)
ViewFields(e) ==
    CASE e = "Usuario" ->
            {"id", "nome", "email", "permissoes", "flg_ativo", "flg_excluido",
             "created_at", "updated_at"}
      [] e = "WebLink" ->
            {"id", "title", "weblink", "resumo", "usuario_id", "flg_ativo",
             "flg_excluido", "created_at", "updated_at"}
      [] OTHER -> BaseColumns

\* _extract_model_data(model): every column but the sensitive ones
ExtractModelData(e, row) ==
    [c \in Columns(e) \ SensitiveFields(e) |-> row[c]]

\* view_class.model_validate(view_data): the declared fields found in the data
MapToView(e, row) ==
    LET view_data == ExtractModelData(e, row)
    IN  [f \in ViewFields(e) \cap DOMAIN view_data |-> view_data[f]]

\* the items of the "data" of an answer: the projected dicts on the select
\* path, the mapped views otherwise
ResponseItems(r, res) ==
    IF res.kind = "projected" THEN res.data
    ELSE [i \in 1..Len(res.rows) |-> MapToView(r.base, res.rows[i])]

----------------------------------------------------------------------------
(* The list handler: controller list_*, BaseUseCase.get_all,
   BaseService.get_all *)

\* include.split(',') if include else None
IncludeList(include) ==
    IF include = None \/ include.s = <<>> THEN <<>> ELSE Split(include.s, ",")

\* ",".join(include) if include else select_fields
IncludeParamForLoadOptions(include, select_fields) ==
    IF IncludeList(include) # <<>>
    THEN VStr(Join(IncludeList(include), ","))
    ELSE select_fields

\* ValueError is turned into 400 by the service; anything else reaches the
\* use case, which answers 500
HttpError(r) ==
    [status |-> IF r.exc = "ValueError" THEN 400 ELSE 500, err |-> r.err,
     kind |-> "error"]

\* controller lines 66-70
ParseRequest ==
    /\ pc = "received"
    /\ req.endpoint = "list"
    /\ filters' = ParseFiltersOf(req.params)
    /\ pc' = "parsed"
    /\ UNCHANGED <<req, query, tree, result>>
    /\ UNCHANGED store

\* the id of the authenticated caller
CallerId(r) == IF r.caller = "admin" THEN "u0" ELSE "u1"

\* the permissoes of the authenticated caller
Permissoes(r) == IF r.caller = "admin" THEN {"ADMIN"} ELSE {"LINK"}

\* has_permission answering yes for whatever permission is asked
HasPermissionAlways(r, permission) == Permissoes(r) # {}

\* has_permission(user, permission) for an active user: ADMIN holds every
\* permission
HasPermission(r, permission) ==
    "ADMIN" \in Permissoes(r) \/ permission \in Permissoes(r)

\* the user_info the use case hands to BaseUseCase.get_all: None for an
\* administrator listing web links (web_link/use_case.py 86)
UserInfoForBase(r) ==
    IF r.base = "WebLink" /\ HasPermission(r, "ADMIN") THEN None
    ELSE VUuid(CallerId(r))

\* web_link/use_case.py 67-86 and base_use_case.py 108-123: the filters the
\* use case adds to the parsed ones
UseCaseFilterParams(r, filter_params) ==
    LET own == IF r.base = "WebLink" /\ ~HasPermission(r, "ADMIN")
               THEN DictSet(filter_params, S("usuario_id"),
                            <<<<S("eq"), VUuid(CallerId(r))>>>>)
               ELSE filter_params
    IN  IF UserInfoForBase(r) = None
        THEN DictSet(own, S("flg_excluido"), <<<<S("eq"), VBool(FALSE)>>>>)
        ELSE own

UseCaseFilters ==
    /\ pc = "parsed"
    /\ filters' = UseCaseFilterParams(req, filters)
    /\ pc' = "scoped"
    /\ UNCHANGED <<req, query, tree, result>>
    /\ UNCHANGED store

\* base_service.py 140-146: select(model) with the ownership condition
BaseQuery(model_cls, user_id) ==
    IF user_id # None /\ "usuario_id" \in Columns(model_cls)
    THEN [EmptySelect EXCEPT !.where =
            <<[col |-> <<model_cls, "usuario_id">>, op |-> "eq",
               val |-> user_id]>>]
    ELSE EmptySelect

\* the searchable_fields a service declares
SearchableFields(e) ==
    CASE e = "WebLink" -> <<"weblink", "resumo", "title">>
      [] e = "Usuario" -> <<"nome", "email">>
      [] OTHER -> <<>>

\* apply_search(query, model_cls, search, search_fields): one condition,
\* the disjunction of ilike over the local text columns; its col is the
\* model followed by the columns searched
ApplySearchOf(q, model_cls, search, search_fields) ==
    LET IsColumn(f) == f \in Columns(model_cls)
        conditions == SelectSeq(search_fields, IsColumn)
    IN  IF search = None \/ search.s = <<>> \/ conditions = <<>> THEN q
        ELSE [q EXCEPT !.where =
                Append(@, [col |-> <<model_cls>> \o conditions,
                           op |-> "or_ilike", val |-> search])]

\* base_service.py 140-157; the count query receives the same calls
ApplyFilters ==
    /\ pc = "scoped"
    /\ LET q0 == ApplySearchOf(BaseQuery(req.base, UserInfoForBase(req)),
                               req.base, req.search,
                               SearchableFields(req.base))
           r == IF filters = <<>>
                THEN [err |-> "none", exc |-> "none", query |-> q0]
                ELSE ApplyFiltersOf(q0, req.base, filters,
                                    ServiceRelationMap(req.base))
       IN  IF r.err # "none"
           THEN /\ result' = HttpError(r)
                /\ pc' = "responded"
                /\ query' = query
           ELSE /\ query' = r.query
                /\ pc' = "filtered"
                /\ result' = result
    /\ UNCHANGED <<req, filters, tree>>
    /\ UNCHANGED store

\* base_service.py 161-165
ApplySorting ==
    /\ pc = "filtered"
    /\ LET r == ApplySortingOf(query, req.base, req.sort_by, req.sort_dir,
                               ServiceRelationMap(req.base))
       IN  IF r.err # "none"
           THEN /\ result' = HttpError(r)
                /\ pc' = "responded"
                /\ query' = query
           ELSE /\ query' = r.query
                /\ pc' = "sorted"
                /\ result' = result
    /\ UNCHANGED <<req, filters, tree>>
    /\ UNCHANGED store

\* _get_query_with_includes, base_service.py 61-67
QueryWithIncludes(q, model_cls, relations_map, include) ==
    IF include = <<>> THEN [err |-> "none", exc |-> "none", query |-> q]
    ELSE LET r == GetValidatedLoadOptions(model_cls, relations_map, include)
         IN  IF r.err # "none" THEN r
             ELSE [err |-> "none", exc |-> "none",
                   query |-> [q EXCEPT !.options = @ \o r.options]]

\* base_service.py 167-177
PlanLoad ==
    /\ pc = "sorted"
    /\ LET r == QueryWithIncludes(query, req.base,
                                  ServiceRelationMap(req.base),
                                  IncludeList(req.include))
       IN  IF r.err # "none"
           THEN /\ result' = HttpError(r)
                /\ pc' = "responded"
                /\ query' = query
           ELSE /\ query' = ApplySelectLoadOptions(r.query, req.base,
                               IncludeParamForLoadOptions(req.include,
                                                          req.select))
                /\ pc' = "planned"
                /\ result' = result
    /\ UNCHANGED <<req, filters, tree>>
    /\ UNCHANGED store

HasSelect(r) == r.select # None /\ r.select.s # <<>>

\* base_service.py 178-189 and base_use_case.py 142-156: the rows are
\* projected when select is given, handed to the mapper otherwise
Respond ==
    /\ pc = "planned"
    /\ req.endpoint = "list"
    /\ \E rows \in ResultSets(req.base, query) :
         IF HasSelect(req)
         THEN /\ tree' = ParseSelectFields(req.select)
              /\ result' =
                   [status |-> 200, err |-> "none", kind |-> "projected",
                    rows |-> rows,
                    data |-> [i \in 1..Len(rows) |->
                                ModelDump(ModelValidate(req.base, rows[i]),
                                          ParseSelectFields(req.select))]]
         ELSE /\ tree' = tree
              /\ result' = [status |-> 200, err |-> "none", kind |-> "views",
                            rows |-> rows]
    /\ pc' = "responded"
    /\ UNCHANGED <<req, filters, query>>
    /\ UNCHANGED store

----------------------------------------------------------------------------
(* The get-by-id handler: controller get_*_by_id, BaseUseCase.get_by_id,
   BaseService.get_by_id *)

\* the user_id BaseUseCase.get_by_id derives: the web_link controller passes
\* no user_info, the usuario controller passes the caller
GetByIdUserId(r) ==
    IF r.base = "WebLink" THEN None ELSE VUuid(CallerId(r))

\* base_service.py 89-100
GetByIdPlan ==
    /\ pc = "received"
    /\ req.endpoint = "get_by_id"
    /\ LET q0 == BaseQuery(req.base, GetByIdUserId(req))
           q1 == [q0 EXCEPT !.where =
                    <<[col |-> <<req.base, "id">>, op |-> "eq",
                       val |-> VUuid("id1")]>> \o @]
       IN  query' = ApplySelectLoadOptions(q1, req.base,
                        IncludeParamForLoadOptions(req.include, req.select))
    /\ pc' = "planned"
    /\ UNCHANGED <<req, filters, tree, result>>
    /\ UNCHANGED store

\* the routes declared with a response_model (web_link/controller.py 115-121)
HasResponseModel(e) == e = "WebLink"

\* base_service.py 101-109, base_use_case.py 223-236 and the controller:
\* no row gives 404 (or, with select, an AttributeError on None.__dict__);
\* a projected dict is wrapped as {"data": [dict]}, which a declared
\* response_model does not validate
GetByIdRespond ==
    /\ pc = "planned"
    /\ req.endpoint = "get_by_id"
    /\ \E rows \in ResultSets(req.base, query) :
         IF HasSelect(req)
         THEN /\ tree' = ParseSelectFields(req.select)
              /\ result' =
                   IF rows = <<>>
                   THEN HttpError(Fail("NoneHasNoDict", "AttributeError"))
                   ELSE [status |-> IF HasResponseModel(req.base) THEN 500
                                    ELSE 200,
                         err |-> IF HasResponseModel(req.base)
                                 THEN "ResponseValidation" ELSE "none",
                         kind |-> "projected", rows |-> rows,
                         data |-> <<ModelDump(ModelValidate(req.base, rows[1]),
                                              ParseSelectFields(req.select))>>]
         ELSE /\ tree' = tree
              /\ result' =
                   IF rows = <<>>
                   THEN [status |-> 404, err |-> "NotFound", kind |-> "error"]
                   ELSE [status |-> 200, err |-> "none", kind |-> "views",
                         rows |-> rows]
    /\ pc' = "responded"
    /\ UNCHANGED <<req, filters, query>>
    /\ UNCHANGED store

----------------------------------------------------------------------------
(* Specification SpecFilter: list requests of the WebLink service carrying
   filter and sort parameters *)

FilterKey(field, op) ==
    <<"filter", "[">> \o field \o <<"]", "[">> \o S(op) \o <<"]">>

TitleField == S("title")
UsuarioNome == <<"usuario", ".", "nome">>
UsuarioEmail == <<"usuario", ".", "email">>

\* raw values given to isnull
IsNullRaw ==
    {S(v) : v \in {"true", "TRUE", "yes", "On", "1", "false", "no", "off",
                   "0", "null", "None", "x"}}

ParamPool ==
    {<<FilterKey(TitleField, "eq"), S("a")>>,
     <<FilterKey(TitleField, "eq"), S("b")>>,
     <<FilterKey(TitleField, "EQ"), S("b")>>,
     <<FilterKey(UsuarioNome, "eq"), S("a")>>,
     <<FilterKey(UsuarioEmail, "ilike"), S("a")>>,
     <<FilterKey(S("metadata"), "eq"), S("a")>>,
     <<FilterKey(S("bogus"), "eq"), S("a")>>,
     <<FilterKey(TitleField, "bogus"), S("a")>>,
     <<FilterKey(TitleField, "in"), <<"a", ",", " ", "b">> >>,
     <<FilterKey(TitleField, "in"), S("1")>>,
     <<S("skip"), S("0")>>}
    \cup {<<FilterKey(TitleField, "isnull"), v>> : v \in IsNullRaw}

RECURSIVE ParamLists(_)
ParamLists(n) ==
    IF n = 0 THEN {<<>>}
    ELSE {Append(l, x) : l \in ParamLists(n - 1), x \in ParamPool}

SortPool ==
    {<<None, VStr(S("asc"))>>,
     <<VStr(TitleField), VStr(S("asc"))>>,
     <<VStr(UsuarioNome), VStr(S("desc"))>>,
     <<VStr(S("metadata")), VStr(S("asc"))>>}

InitFilter ==
    /\ pc = "received"
    /\ \E n \in 0..MaxParams :
         \E params \in ParamLists(n), sort \in SortPool,
            caller \in {"admin", "user"} :
            req = [endpoint |-> "list", base |-> "WebLink", caller |-> caller,
                   params |-> params,
                   sort_by |-> sort[1], sort_dir |-> sort[2],
                   include |-> None, select |-> None, search |-> None]
    /\ filters = <<>>
    /\ query = EmptySelect
    /\ tree = None
    /\ result = None
    /\ NoStore

NextFilter ==
    \/ ParseRequest
    \/ UseCaseFilters
    \/ ApplyFilters
    \/ ApplySorting
    \/ PlanLoad
    \/ Respond

SpecFilter == InitFilter /\ [][NextFilter]_vars

----------------------------------------------------------------------------
(* Specification SpecSelect: list and get-by-id requests carrying include
   and select parameters *)

IncludeTokens ==
    {S("usuario"), S("web_links"), S("bogus"), <<" ", "usuario">>, <<>>}

\* the lists of n elements of a pool
TokenLists(pool, n) == [1..n -> pool]

IncludePool ==
    {None} \cup
    {VStr(Join(l, ",")) :
        l \in UNION {TokenLists(IncludeTokens, n) : n \in 1..MaxIncludes}}

SelectPaths ==
    {S("id"), S("nome"), S("title"), S("senha"),
     <<"usuario", ".", "nome">>,
     <<"web_links", ".", "title">>,
     <<"[", "web_links", "]", ".", "title">>}

SelectPool ==
    {None} \cup
    {VStr(Join(l, ",")) :
        l \in UNION {TokenLists(SelectPaths, n) : n \in 1..MaxPaths}}

\* the usuario routes require ADMIN, the web_link routes LINK
Callers(e) == IF e = "Usuario" THEN {"admin"} ELSE {"admin", "user"}

InitSelect ==
    /\ pc = "received"
    /\ \E endpoint \in {"list", "get_by_id"}, base \in {"Usuario", "WebLink"},
          include \in IncludePool, select \in SelectPool :
         \E caller \in Callers(base) :
            req = [endpoint |-> endpoint, base |-> base, caller |-> caller,
                   params |-> <<>>, sort_by |-> None,
                   sort_dir |-> VStr(S("asc")),
                   include |-> include, select |-> select,
                   search |-> None]
    /\ filters = <<>>
    /\ query = EmptySelect
    /\ tree = None
    /\ result = None
    /\ NoStore

NextSelect ==
    \/ ParseRequest
    \/ UseCaseFilters
    \/ ApplyFilters
    \/ ApplySorting
    \/ PlanLoad
    \/ Respond
    \/ GetByIdPlan
    \/ GetByIdRespond

SpecSelect == InitSelect /\ [][NextSelect]_vars

----------------------------------------------------------------------------
(* Specification SpecTree: one call of parse_select_fields_for_pydantic *)

TreeNames == {"tenants", "roles", "nome"}

\* a segment is a name, bare or in brackets
TreeSegs == [name : TreeNames, br : BOOLEAN]

TreePaths(n) == [1..n -> TreeSegs]

\* the text of a segment and of a path
SegText(seg) == IF seg.br THEN <<"[", seg.name, "]">> ELSE S(seg.name)

PathText(path) == Join([i \in 1..Len(path) |-> SegText(path[i])], ".")

TreeSelectors ==
    UNION {TokenLists(UNION {TreePaths(d) : d \in 1..MaxSelDepth}, n) :
              n \in 1..MaxPaths}

\* the selector text: the paths joined by commas, blanks around the paths
\* when padded
SelectorText(paths, padded) ==
    Join([i \in 1..Len(paths) |->
            IF padded THEN <<" ">> \o PathText(paths[i]) \o <<" ">>
            ELSE PathText(paths[i])], ",")

InitTree ==
    /\ pc = "call"
    /\ \E paths \in TreeSelectors, padded \in BOOLEAN :
         req = [paths |-> paths, select |-> VStr(SelectorText(paths, padded))]
    /\ filters = <<>>
    /\ query = EmptySelect
    /\ tree = None
    /\ result = None
    /\ NoStore

ParseSelect ==
    /\ pc = "call"
    /\ tree' = ParseSelectFields(req.select)
    /\ pc' = "returned"
    /\ UNCHANGED <<req, filters, query, result>>
    /\ UNCHANGED store

NextTree == ParseSelect

SpecTree == InitTree /\ [][NextTree]_vars

----------------------------------------------------------------------------
(* Specification SpecRaw: parse_select_fields_for_pydantic called with an
   arbitrary text, well formed or not *)

RawSyms == {",", " ", ".", "[", "]", "a", "a-b"}

\* two identifier chunks never stand side by side: they would be one chunk
WellChunked(s) ==
    \A i \in 1..(Len(s) - 1) : s[i] \in Punct \/ s[i + 1] \in Punct

RawSelectors ==
    {s \in UNION {[1..n -> RawSyms] : n \in 1..MaxRawLen} : WellChunked(s)}

InitRaw ==
    /\ pc = "call"
    /\ \E s \in RawSelectors : req = [paths |-> <<>>, select |-> VStr(s)]
    /\ filters = <<>>
    /\ query = EmptySelect
    /\ tree = None
    /\ result = None
    /\ NoStore

NextRaw == ParseSelect

SpecRaw == InitRaw /\ [][NextRaw]_vars

----------------------------------------------------------------------------
(* Specification SpecParse: parse_filters called with query parameters whose
   keys do or do not follow the grammar *)

ParseKeys ==
    {FilterKey(TitleField, "eq"),
     FilterKey(TitleField, "EQ"),
     FilterKey(UsuarioNome, "ilike"),
     <<"filter", "[", "a", "]", "[", "b", "]", "[", "c", "]">>,
     S("skip"),
     <<"filter", "[", "title", "]">>,
     <<"filter", "[", "]", "[", "eq", "]">>,
     FilterKey(TitleField, "eq") \o S("x"),
     S("xfilter") \o Tail(FilterKey(TitleField, "eq")),
     S("FILTER") \o Tail(FilterKey(TitleField, "eq"))}

ParseValues == {S("a"), S("true"), S("null")}

InitParse ==
    /\ pc = "received"
    /\ \E n \in 0..MaxParams :
         \E params \in [1..n -> ParseKeys \X ParseValues] :
            req = [endpoint |-> "list", base |-> "WebLink", caller |-> "admin",
                   params |-> params, sort_by |-> None,
                   sort_dir |-> VStr(S("asc")),
                   include |-> None, select |-> None, search |-> None]
    /\ filters = <<>>
    /\ query = EmptySelect
    /\ tree = None
    /\ result = None
    /\ NoStore

NextParse == ParseRequest

SpecParse == InitParse /\ [][NextParse]_vars

----------------------------------------------------------------------------
(* Specification SpecExcluded: the load planning of the list and get-by-id
   operations of a service whose model class is Aula *)

AulaIncludeTokens == {S("aulas_livros"), S("livros"), S("bogus")}

AulaIncludePool ==
    {None} \cup
    {VStr(Join(l, ",")) :
        l \in UNION {TokenLists(AulaIncludeTokens, n) : n \in 1..MaxIncludes}}

AulaSelectPool ==
    {None, VStr(S("id")),
     VStr(<<"[", "aulas_livros", "]", ".", "id">>),
     VStr(<<"aulas_livros", ".", "id">>),
     VStr(<<"livros", ".", "id">>)}

InitExcluded ==
    /\ pc = "received"
    /\ \E endpoint \in {"list", "get_by_id"},
          include \in AulaIncludePool, select \in AulaSelectPool :
            req = [endpoint |-> endpoint, base |-> "Aula", caller |-> "admin",
                   params |-> <<>>, sort_by |-> None,
                   sort_dir |-> VStr(S("asc")),
                   include |-> include, select |-> select,
                   search |-> None]
    /\ filters = <<>>
    /\ query = EmptySelect
    /\ tree = None
    /\ result = None
    /\ NoStore

\* the operations up to the statement handed to the database
NextExcluded ==
    \/ ParseRequest
    \/ UseCaseFilters
    \/ ApplyFilters
    \/ ApplySorting
    \/ PlanLoad
    \/ GetByIdPlan

SpecExcluded == InitExcluded /\ [][NextExcluded]_vars

----------------------------------------------------------------------------
(* Specification SpecAccess: the web link list requested by an administrator
   or a normal user, with client filters on the owner, a search term and a
   sort field *)

OwnerField == S("usuario_id")

AccessParams ==
    {<<FilterKey(OwnerField, "eq"), S("u2")>>,
     <<FilterKey(OwnerField, "EQ"), S("u2")>>,
     <<FilterKey(OwnerField, "neq"), S("u1")>>,
     <<FilterKey(<<"usuario", ".", "id">>, "eq"), S("u2")>>,
     <<FilterKey(TitleField, "eq"), S("a")>>,
     <<FilterKey(S("bogus"), "eq"), S("a")>>}

AccessSorts == {<<None, None>>, <<VStr(OwnerField), VStr(S("desc"))>>}

InitAccess ==
    /\ pc = "received"
    /\ \E n \in 0..MaxParams :
         \E params \in [1..n -> AccessParams], sort \in AccessSorts,
            search \in {None, VStr(S("a"))}, caller \in {"admin", "user"} :
            req = [endpoint |-> "list", base |-> "WebLink", caller |-> caller,
                   params |-> params,
                   sort_by |-> sort[1], sort_dir |-> sort[2],
                   include |-> None, select |-> None, search |-> search]
    /\ filters = <<>>
    /\ query = EmptySelect
    /\ tree = None
    /\ result = None
    /\ NoStore

NextAccess ==
    \/ ParseRequest
    \/ UseCaseFilters
    \/ ApplyFilters
    \/ ApplySorting
    \/ PlanLoad
    \/ Respond

SpecAccess == InitAccess /\ [][NextAccess]_vars

----------------------------------------------------------------------------
(* The stored tables and the handlers that read and write them *)

Users == {"u0", "u1", "u2"}
Links == {"w1", "w2", "w3"}

\* an id no row has
MissingId == "x9"

\* the rows at start: every user active, nothing soft-deleted, no reset token
InitialDb ==
    [usuarios |-> [u \in Users |->
                     [flg_ativo |-> TRUE, flg_excluido |-> FALSE,
                      nome |-> "a", senha |-> "s0"]],
     links |-> [w \in Links |->
                  [usuario_id |-> OwnerOf(w), flg_excluido |-> FALSE,
                   title |-> "a"]],
     tokens |-> << >>]

\* the table of a mapped class
Table(d, e) == IF e = "Usuario" THEN d.usuarios ELSE d.links

TableIds(e) == IF e = "Usuario" THEN <<"u0", "u1", "u2">> ELSE <<"w1", "w2", "w3">>

\* the rows of a table in table order, each with its id
TableRows(d, e) ==
    [i \in 1..Len(TableIds(e)) |->
        [id |-> TableIds(e)[i]] @@ Table(d, e)[TableIds(e)[i]]]

\* the Python value of a bound parameter
ValueOf(v) ==
    CASE v.t = "uuid" -> v.u
      [] v.t = "bool" -> v.b
      [] v.t = "str" -> v.s

\* column == value evaluated on a row
Satisfies(p, row) ==
    CASE p.op = "eq" -> row[p.col[2]] = ValueOf(p.val)

\* db.execute(query): the rows every WHERE predicate is true of
ExecuteSelect(d, e, q) ==
    LET Passes(row) == \A k \in 1..Len(q.where) : Satisfies(q.where[k], row)
    IN  SelectSeq(TableRows(d, e), Passes)

\* base_service.py 89-93: select by id, with the ownership condition when a
\* user_id is given and the class has usuario_id
ByIdQuery(model_cls, id, user_id) ==
    LET q0 == BaseQuery(model_cls, user_id)
    IN  [q0 EXCEPT !.where =
            <<[col |-> <<model_cls, "id">>, op |-> "eq", val |-> VUuid(id)]>>
            \o @]

\* the user_id a service lets through to BaseService: UsuarioService
\* overrides get_by_id, update and delete to pass None
ServiceUserId(e, user_id) == IF e = "Usuario" THEN None ELSE user_id

\* service.get_by_id(db, id, user_id=user_id): scalar_one_or_none()
ServiceGetById(d, e, id, user_id) ==
    LET rows == ExecuteSelect(d, e, ByIdQuery(e, id, ServiceUserId(e, user_id)))
    IN  IF rows = << >> THEN None ELSE rows[1]

\* the fields an update schema declares (schemas.py); a keyword that is not
\* a declared field is ignored by the constructor
UpdateSchemaFields(e) ==
    IF e = "Usuario" THEN {"nome", "email", "senha", "permissoes"}
    ELSE {"title", "weblink", "resumo", "usuario_id"}

\* Schema(**kwargs).model_dump(exclude_unset=True)
ModelDumpUnset(e, kwargs) ==
    [k \in DOMAIN kwargs \cap UpdateSchemaFields(e) |-> kwargs[k]]

\* _assign_usuario_id(data, user_info)
AssignUsuarioId(e, data, user_info) ==
    IF "usuario_id" \in UpdateSchemaFields(e) /\ user_info # None
    THEN [k \in DOMAIN data \cup {"usuario_id"} |->
            IF k = "usuario_id" THEN user_info.u ELSE data[k]]
    ELSE data

\* whether the update of a service takes the keyword user_id:
\* WebLinkService.update(self, db, id, data) does not
UpdateTakesUserId(e) == e # "WebLink"

\* the loop of setattr over update_data, then commit
UpdateRow(d, e, id, update_data) ==
    LET row == Table(d, e)[id]
        new == [k \in DOMAIN row |->
                  IF k \in DOMAIN update_data THEN update_data[k] ELSE row[k]]
    IN  IF e = "Usuario" THEN [d EXCEPT !.usuarios[id] = new]
        ELSE [d EXCEPT !.links[id] = new]

\* an answer: the status, the rows of a list, the entity of a single read
Answer(status, rows, view) == [status |-> status, rows |-> rows, view |-> view]

\* BaseUseCase.update and the controller around it: 404 when get_by_id finds
\* nothing, 500 when the service call raises, else the updated view
UseCaseUpdate(d, e, id, kwargs, user_info) ==
    IF ServiceGetById(d, e, id, user_info) = None
    THEN [db |-> d, answer |-> Answer(404, << >>, None)]
    ELSE IF ~UpdateTakesUserId(e)
    THEN [db |-> d, answer |-> Answer(500, << >>, None)]
    ELSE LET data == AssignUsuarioId(e, ModelDumpUnset(e, kwargs), user_info)
             d2 == UpdateRow(d, e, id, data)
         IN  [db |-> d2,
              answer |-> Answer(200, << >>, [id |-> id] @@ Table(d2, e)[id])]

\* BaseUseCase.delete and BaseService.delete: soft delete of the row found
UseCaseDelete(d, e, id, user_info) ==
    IF ServiceGetById(d, e, id, user_info) = None
    THEN [db |-> d, answer |-> Answer(404, << >>, None)]
    ELSE [db |-> UpdateRow(d, e, id, [k \in {"flg_excluido"} |-> TRUE]),
          answer |-> Answer(204, << >>, None)]

\* BaseUseCase.get_all on the stored rows, with no client parameter
UseCaseGetAll(d, r) ==
    LET filter_params == UseCaseFilterParams(r, << >>)
        q0 == BaseQuery(r.base, ServiceUserId(r.base, UserInfoForBase(r)))
        c == IF filter_params = << >>
             THEN [err |-> "none", exc |-> "none", query |-> q0]
             ELSE ApplyFiltersOf(q0, r.base, filter_params,
                                 ServiceRelationMap(r.base))
    IN  IF c.err # "none" THEN Answer(HttpError(c).status, << >>, None)
        ELSE Answer(200, ExecuteSelect(d, r.base, c.query), None)

\* get_current_user, then PermissionChecker.__call__ of require(perms): the
\* status the dependencies end the request with, 200 when they let it pass
Require(d, iss, r, perms) ==
    IF CallerId(r) \notin iss THEN 401
    ELSE IF ~d.usuarios[CallerId(r)].flg_ativo THEN 403
    ELSE IF "ADMIN" \in Permissoes(r) \/ perms \cap Permissoes(r) # {} THEN 200
    ELSE 403

\* get_current_user alone: the token is decoded and the row is found
GetCurrentUser(d, iss, r) == IF CallerId(r) \notin iss THEN 401 ELSE 200

Request(op, caller, base, id) ==
    [op |-> op, caller |-> caller, base |-> base, id |-> id]

\* conta/service.py 104-141
Login(caller) ==
    LET r == Request("login", caller, "Usuario", CallerId([caller |-> caller]))
    IN  /\ req' = r
        /\ IF ~db.usuarios[r.id].flg_ativo
           THEN /\ result' = Answer(401, << >>, None)
                /\ issued' = issued
           ELSE /\ result' = Answer(200, << >>, None)
                /\ issued' = issued \cup {r.id}
        /\ UNCHANGED <<pc, filters, query, tree, db, calls>>

\* usuario/controller.py 25-43
GetMe(caller) ==
    LET r == Request("get_me", caller, "Usuario", CallerId([caller |-> caller]))
        st == GetCurrentUser(db, issued, r)
    IN  /\ req' = r
        /\ result' = IF st # 200 THEN Answer(st, << >>, None)
                     ELSE Answer(200, << >>, [id |-> r.id] @@ db.usuarios[r.id])
        /\ UNCHANGED <<pc, filters, query, tree, db, issued, calls>>

\* usuario/controller.py 225-265
DesativarUsuario(caller, id) ==
    LET r == Request("desativar", caller, "Usuario", id)
        st == Require(db, issued, r, {"ADMIN"})
        u == UseCaseUpdate(db, "Usuario", id,
                           [k \in {"flg_ativo"} |-> FALSE], None)
    IN  /\ req' = r
        /\ IF st # 200
           THEN result' = Answer(st, << >>, None) /\ db' = db
           ELSE result' = u.answer /\ db' = u.db
        /\ UNCHANGED <<pc, filters, query, tree, issued, calls>>

\* usuario/controller.py 153-177
UpdateUsuario(caller, id, nome) ==
    LET r == Request("update", caller, "Usuario", id)
        st == Require(db, issued, r, {"ADMIN"})
        u == UseCaseUpdate(db, "Usuario", id, [k \in {"nome"} |-> nome], None)
    IN  /\ req' = r
        /\ IF st # 200
           THEN result' = Answer(st, << >>, None) /\ db' = db
           ELSE result' = u.answer /\ db' = u.db
        /\ UNCHANGED <<pc, filters, query, tree, issued, calls>>

\* usuario/controller.py 268-294
DeleteUsuario(caller, id) ==
    LET r == Request("delete", caller, "Usuario", id)
        st == Require(db, issued, r, {"ADMIN"})
        u == UseCaseDelete(db, "Usuario", id, VUuid(CallerId(r)))
    IN  /\ req' = r
        /\ IF st # 200
           THEN result' = Answer(st, << >>, None) /\ db' = db
           ELSE result' = u.answer /\ db' = u.db
        /\ UNCHANGED <<pc, filters, query, tree, issued, calls>>

\* usuario/controller.py 46-91 and web_link/controller.py 45-91
ListEntities(caller, base) ==
    LET r == Request("list", caller, base, MissingId)
        st == Require(db, issued, r,
                      IF base = "Usuario" THEN {"ADMIN"} ELSE {"LINK"})
    IN  /\ req' = r
        /\ result' = IF st # 200 THEN Answer(st, << >>, None)
                     ELSE UseCaseGetAll(db, r)
        /\ UNCHANGED <<pc, filters, query, tree, db, issued, calls>>

\* web_link/controller.py 115-149: use_case.get_by_id without user_info
GetWebLinkById(caller, id) ==
    LET r == Request("get_by_id", caller, "WebLink", id)
        st == Require(db, issued, r, {"LINK"})
        row == ServiceGetById(db, "WebLink", id, None)
    IN  /\ req' = r
        /\ result' = IF st # 200 THEN Answer(st, << >>, None)
                     ELSE IF row = None THEN Answer(404, << >>, None)
                     ELSE Answer(200, << >>, row)
        /\ UNCHANGED <<pc, filters, query, tree, db, issued, calls>>

\* web_link/controller.py 151-175: use_case.update with user_info
UpdateWebLink(caller, id, title) ==
    LET r == Request("update", caller, "WebLink", id)
        st == Require(db, issued, r, {"LINK"})
        u == UseCaseUpdate(db, "WebLink", id, [k \in {"title"} |-> title],
                           VUuid(CallerId(r)))
    IN  /\ req' = r
        /\ IF st # 200
           THEN result' = Answer(st, << >>, None) /\ db' = db
           ELSE result' = u.answer /\ db' = u.db
        /\ UNCHANGED <<pc, filters, query, tree, issued, calls>>

\* web_link/controller.py 178-204: use_case.delete without user_info
DeleteWebLink(caller, id) ==
    LET r == Request("delete", caller, "WebLink", id)
        st == Require(db, issued, r, {"LINK"})
        u == UseCaseDelete(db, "WebLink", id, None)
    IN  /\ req' = r
        /\ IF st # 200
           THEN result' = Answer(st, << >>, None) /\ db' = db
           ELSE result' = u.answer /\ db' = u.db
        /\ UNCHANGED <<pc, filters, query, tree, issued, calls>>

----------------------------------------------------------------------------
(* Specification SpecStore: any sequence of requests of an administrator (u0)
   and a normal user (u1) against the stored users and links *)

StoreCallers == {"admin", "user"}
StoreNames == {"a", "b"}

InitStore ==
    /\ pc = "serving"
    /\ req = None
    /\ filters = << >>
    /\ query = EmptySelect
    /\ tree = None
    /\ result = None
    /\ db = InitialDb
    /\ issued = {}
    /\ calls = << >>

NextStore ==
    \/ \E caller \in StoreCallers : Login(caller)
    \/ \E caller \in StoreCallers : GetMe(caller)
    \/ \E caller \in StoreCallers, id \in {"u1", MissingId} :
          DesativarUsuario(caller, id)
    \/ \E caller \in StoreCallers, id \in {"u2", MissingId}, nome \in StoreNames :
          UpdateUsuario(caller, id, nome)
    \/ \E caller \in StoreCallers, id \in {"u2", MissingId} :
          DeleteUsuario(caller, id)
    \/ \E caller \in StoreCallers, base \in {"Usuario", "WebLink"} :
          ListEntities(caller, base)
    \/ \E caller \in StoreCallers, id \in Links \cup {MissingId} :
          GetWebLinkById(caller, id)
    \/ \E caller \in StoreCallers, id \in {"w1", "w3", MissingId},
          title \in StoreNames :
          UpdateWebLink(caller, id, title)
    \/ \E caller \in StoreCallers, id \in {"w1", "w3", MissingId} :
          DeleteWebLink(caller, id)

SpecStore == InitStore /\ [][NextStore]_vars

----------------------------------------------------------------------------
(* Specification SpecCompile: apply_filters followed by apply_sorting on one
   statement, called with a filter map of one field *)

CompileOps == {S("in"), S("notin"), S("eq"), S("neq"), S("isnull")}

CompileValues ==
    {VStr(<<"a", ",", " ", "b", " ", ",", "c">>), VStr(<<",">>),
     VList(<<S("a"), S("b")>>), VTuple(<<S("a")>>), VBool(TRUE), None}

\* the operator dicts of n items: the keys of a dict are distinct
OpDicts(n) ==
    {d \in [1..n -> CompileOps \X CompileValues] :
        \A i, j \in 1..n : i # j => d[i][1] # d[j][1]}

\* a column of the base entity and a column behind its relationship
CompileFields(e) ==
    IF e = "WebLink" THEN {S("title"), <<"usuario", ".", "nome">>}
    ELSE {S("nome"), <<"web_links", ".", "title">>}

CompileSortBy(e) ==
    {None, VStr(<<>>), VStr(IF e = "WebLink" THEN S("title") ELSE S("nome"))}

CompileSortDir == {None, VStr(S("asc")), VStr(S("sideways"))}

InitCompile ==
    /\ pc = "compile"
    /\ \E base \in {"WebLink", "Usuario"}, n \in 1..MaxOps :
         \E field \in CompileFields(base), operators \in OpDicts(n),
            sort_by \in CompileSortBy(base), sort_dir \in CompileSortDir :
            req = [base |-> base,
                   filter_params |-> <<<<field, operators>>>>,
                   sort_by |-> sort_by, sort_dir |-> sort_dir]
    /\ filters = <<>>
    /\ query = EmptySelect
    /\ tree = None
    /\ result = None
    /\ NoStore

\* apply_filters(select(model), model, filter_params, relations_map)
CompileFilters ==
    /\ pc = "compile"
    /\ LET r == ApplyFiltersOf(EmptySelect, req.base, req.filter_params,
                               ServiceRelationMap(req.base))
       IN  IF r.err # "none"
           THEN /\ result' = r
                /\ pc' = "failed"
                /\ query' = query
           ELSE /\ query' = r.query
                /\ pc' = "filtered"
                /\ result' = result
    /\ UNCHANGED <<req, filters, tree>>
    /\ UNCHANGED store

\* apply_sorting(query, model, sort_by, sort_dir, relations_map)
CompileSorting ==
    /\ pc = "filtered"
    /\ LET r == ApplySortingOf(query, req.base, req.sort_by, req.sort_dir,
                               ServiceRelationMap(req.base))
       IN  IF r.err # "none"
           THEN /\ result' = r
                /\ pc' = "failed"
                /\ query' = query
           ELSE /\ query' = r.query
                /\ pc' = "sorted"
                /\ result' = [err |-> "none", exc |-> "none", before |-> query]
    /\ UNCHANGED <<req, filters, tree>>
    /\ UNCHANGED store

NextCompile == CompileFilters \/ CompileSorting

SpecCompile == InitCompile /\ [][NextCompile]_vars

----------------------------------------------------------------------------
(* Specification SpecResolve: one call of _get_column_or_relationship *)

SegPool == {"usuario", "web_links", "nome", "title", "metadata", "bogus"}

RECURSIVE SegLists(_)
SegLists(n) ==
    IF n = 0 THEN {<<>>}
    ELSE {Append(l, x) : l \in SegLists(n - 1), x \in SegPool}

Specifiers == UNION {SegLists(n) : n \in 1..MaxDepth}

\* the dotted string of a list of segment names
Dotted(segs) == Join([i \in 1..Len(segs) |-> S(segs[i])], ".")

\* every map from some of the base's relationship names to its attributes
RelationMaps(base) ==
    {[r \in ks |-> <<base, r>>] : ks \in SUBSET RelKeys(base)}

InitResolve ==
    /\ pc = "call"
    /\ \E base \in Entities, segs \in Specifiers :
         \E rmap \in RelationMaps(base) :
            req = [base |-> base, segs |-> segs, spec |-> Dotted(segs),
                   rmap |-> rmap]
    /\ filters = <<>>
    /\ query = EmptySelect
    /\ tree = None
    /\ result = None
    /\ NoStore

Resolve ==
    /\ pc = "call"
    /\ result' = GetColumnOrRelationship(req.base, req.spec, req.rmap)
    /\ pc' = "returned"
    /\ UNCHANGED <<req, filters, query, tree>>
    /\ UNCHANGED store

NextResolve == Resolve

SpecResolve == InitResolve /\ [][NextResolve]_vars

RECURSIVE EntityAfter(_, _, _)
\* the entity reached from base after following the first k segments
EntityAfter(base, segs, k) ==
    IF k = 0 THEN base
    ELSE LET prev == EntityAfter(base, segs, k - 1)
         IN  IF prev # "?" /\ segs[k] \in RelKeys(prev)
             THEN Relationships(prev)[segs[k]] ELSE "?"

\* zero or more relationship segments followed by exactly one column segment
ValidChain(base, segs) ==
    LET n == Len(segs) IN
    /\ EntityAfter(base, segs, n - 1) # "?"
    /\ segs[n] \in Columns(EntityAfter(base, segs, n - 1))

ValidSpecifier(base, segs, rmap) ==
    /\ ValidChain(base, segs)
    /\ Len(segs) > 1 => segs[1] \in DOMAIN rmap

\* C6: for every valid dotted specifier of depth 1..3 the resolver returns
\* one join per relationship segment, in traversal order, and a terminal
\* column that belongs to the target entity of the last hop (the base entity
\* when there is no hop).
C6_ResolvedPath ==
    (pc = "returned" /\ ValidSpecifier(req.base, req.segs, req.rmap)) =>
        LET n == Len(req.segs) IN
        /\ result.err = "none"
        /\ Len(result.joins) = n - 1
        /\ \A i \in 1..(n - 1) :
              result.joins[i] =
                  <<EntityAfter(req.base, req.segs, i - 1), req.segs[i]>>
        /\ result.model = EntityAfter(req.base, req.segs, n - 1)
        /\ result.column = <<result.model, req.segs[n]>>
        /\ req.segs[n] \in Columns(result.model)

C6_Witness ==
    /\ pc = "returned"
    /\ ValidSpecifier(req.base, req.segs, req.rmap)
    /\ Len(req.segs) = 3
    /\ Len(result.joins) = 2

FirstIsUnmappedRelation ==
    /\ req.segs[1] \in RelKeys(req.base)
    /\ req.segs[1] \notin DOMAIN req.rmap

\* C7 as stated: every specifier whose first segment is a relationship of
\* the base entity absent from relations_map fails with
\* UnmappedBaseRelationship.
C7_Original ==
    (pc = "returned" /\ FirstIsUnmappedRelation) =>
        result.err = "UnmappedBaseRelationship"

\* C7 amended: a specifier of two or more segments whose first segment is a
\* relationship of the base entity absent from relations_map fails with
\* UnmappedBaseRelationship; with that relationship as its only segment it
\* fails with RelationshipAsTerminal; a relationship at the second or a later
\* segment is resolved from the target entity without a whitelist check.
C7_Whitelist ==
    pc = "returned" =>
        /\ (FirstIsUnmappedRelation /\ Len(req.segs) >= 2) =>
              result.err = "UnmappedBaseRelationship"
        /\ (FirstIsUnmappedRelation /\ Len(req.segs) = 1) =>
              result.err = "RelationshipAsTerminal"
        /\ (ValidChain(req.base, req.segs) /\ ~FirstIsUnmappedRelation) =>
              result.err = "none"

C7_Witness ==
    /\ pc = "returned"
    /\ Len(req.segs) = 3
    /\ req.segs[1] \in DOMAIN req.rmap
    /\ req.segs[2] \in RelKeys(EntityAfter(req.base, req.segs, 1))
    /\ req.segs[2] \notin DOMAIN req.rmap
    /\ result.err = "none"

----------------------------------------------------------------------------
(* Claims on SpecFilter *)

\* C1: the joins attached to the query of one request hold at most one entry
\* per (source entity, relationship) pair, however many filter fields and
\* sort fields traverse the relationship.
C1_JoinsDeduplicated ==
    \A i, j \in 1..Len(query.joins) :
        i # j => query.joins[i].rel # query.joins[j].rel

NameOf(part) == IF Len(part) = 1 THEN part[1] ELSE "?"

\* some segment, reached through relationships only, names neither a column
\* nor a relationship of the entity the walk stands on
UnknownSegment(base, spec) ==
    LET parts == Split(spec, ".")
        segs == [i \in 1..Len(parts) |-> NameOf(parts[i])]
    IN  \E k \in 1..Len(segs) :
            LET e == EntityAfter(base, segs, k - 1) IN
            /\ e # "?"
            /\ segs[k] \notin Columns(e) \cup RelKeys(e)

\* C2: a filter field with a segment that names neither a column nor a
\* relationship of the current entity fails with UnknownField and reaches the
\* caller as a client-input error (400), never as an internal error.
C2_UnknownFieldIs400 ==
    (/\ pc = "responded"
     /\ filters # <<>>
     /\ UnknownSegment(req.base, filters[1][1])) =>
        /\ result.err = "UnknownField"
        /\ result.status = 400

\* the indexes of the parameters that carry the field and operator of
\* parameter i
SamePair(i) ==
    LET m == FilterKeyMatch(req.params[i][1]) IN
    {j \in 1..Len(req.params) :
        LET n == FilterKeyMatch(req.params[j][1]) IN
        /\ n.matched
        /\ n.field = m.field
        /\ Lower(n.operator) = Lower(m.operator)}

\* C3: when a field+operator pair occurs more than once among the query
\* parameters, the filter map keeps the value of the last occurrence.
C3_LastWriteWins ==
    pc = "parsed" =>
        \A i \in 1..Len(req.params) :
            LET m == FilterKeyMatch(req.params[i][1]) IN
            m.matched =>
                LET last == CHOOSE j \in SamePair(i) :
                                \A k \in SamePair(i) : k <= j
                IN  DictGet(DictGet(filters, m.field), Lower(m.operator)) =
                        ParseFilterValue(req.params[last][2])

\* one clause the compiler cannot accept
InvalidClause(base, field, op, value) ==
    \/ ~ValidSpecifier(base, [i \in 1..Len(Split(field, ".")) |->
                                NameOf(Split(field, ".")[i])],
                       ServiceRelationMap(base))
    \/ Lower(op) \notin OPERATOR_MAP
    \/ Lower(op) \in {S("in"), S("notin")} /\ value.t \notin {"str", "list"}

HasInvalidClause ==
    \E i \in 1..Len(filters) :
        \E k \in 1..Len(filters[i][2]) :
            InvalidClause(req.base, filters[i][1], filters[i][2][k][1],
                          filters[i][2][k][2])

\* the first field of the filter map resolves and its operators are a
\* supported one followed by "bogus"
ValidThenBogus ==
    /\ filters # <<>>
    /\ ~UnknownSegment(req.base, filters[1][1])
    /\ Len(filters[1][2]) = 2
    /\ filters[1][2][1][1] \in OPERATOR_MAP \ {S("in"), S("notin")}
    /\ filters[1][2][2][1] = S("bogus")

\* C5: an unsupported operator, an unresolvable field or an uncoercible value
\* anywhere in the filter map ends the request with an error and no query is
\* returned; a supported operator followed by "bogus" on one field gives
\* UnsupportedOperator and no predicate.
C5_FailFast ==
    /\ (pc \in {"filtered", "sorted", "planned", "responded"}
            /\ HasInvalidClause) =>
          /\ pc = "responded"
          /\ result.status \in {400, 500}
          /\ query = EmptySelect
    /\ (pc = "responded" /\ ValidThenBogus) =>
          /\ result.err = "UnsupportedOperator"
          /\ result.status = 400
          /\ query.where = <<>>

C5_Witness ==
    /\ pc = "responded"
    /\ ValidThenBogus
    /\ result.err = "UnsupportedOperator"

IsNullKey == FilterKey(TitleField, "isnull")

Truthy == {S("true"), S("yes"), S("on"), S("1")}

IsNullPredicate(polarity) ==
    [col |-> <<"WebLink", "title">>, op |-> polarity, val |-> None]

\* C10: through parse_filters and apply_filters, isnull compiles to IS NULL
\* exactly when its raw value is one of true/yes/on/1 in any letter case, and
\* to IS NOT NULL for every other raw value.
C10_IsNullBoolean ==
    pc = "filtered" =>
        \A i \in 1..Len(req.params) :
            (/\ req.params[i][1] = IsNullKey
             /\ \A j \in 1..Len(req.params) :
                    req.params[j][1] = IsNullKey => j = i) =>
                LET is_null == Lower(req.params[i][2]) \in Truthy IN
                /\ IsNullPredicate(IF is_null THEN "is_null"
                                   ELSE "is_not_null") \in Range(query.where)
                /\ IsNullPredicate(IF is_null THEN "is_not_null"
                                   ELSE "is_null") \notin Range(query.where)

C10_Witness ==
    /\ pc = "filtered"
    /\ req.params = <<<<IsNullKey, S("On")>>>>
    /\ IsNullPredicate("is_null") \in Range(query.where)

----------------------------------------------------------------------------
(* Claims on SpecSelect *)

NoBlankToken(include) ==
    \A i \in 1..Len(IncludeList(include)) :
        /\ IncludeList(include)[i] # <<>>
        /\ " " \notin Range(IncludeList(include)[i])

\* C4: with no include (and no select) every relationship of the base entity
\* is suppressed (noload); with an include naming declared and undeclared
\* relationships the declared ones are loaded (selectinload), the undeclared
\* ones are ignored without an error and every other relationship is
\* suppressed, on the list operation and on get_by_id alike.
C4_LoadPlanner ==
    pc = "responded" =>
        /\ (IncludeList(req.include) = <<>> /\ ~HasSelect(req)) =>
              \A r \in RelKeys(req.base) :
                  EffectiveStrategy(query, <<req.base, r>>) = "noload"
        /\ (IncludeList(req.include) # <<>> /\ NoBlankToken(req.include)) =>
              /\ result.err # "InvalidInclude"
              /\ \A r \in RelKeys(req.base) :
                    EffectiveStrategy(query, <<req.base, r>>) =
                        IF S(r) \in Range(IncludeList(req.include))
                        THEN "selectinload" ELSE "noload"

RECURSIVE Project(_, _)
RECURSIVE ProjectValue(_, _)
\* the projection of section 4.6: the keys of the tree, recursively
Project(obj, tr) ==
    [f \in {f \in DOMAIN obj : S(f) \in DOMAIN tr} |->
        ProjectValue(obj[f], tr[S(f)])]

ProjectValue(v, node) ==
    IF node.t = "leaf" THEN v
    ELSE IF v.t = "list"
    THEN Li([i \in 1..Len(v.l) |->
                IF ALL \in DOMAIN node.d
                THEN ProjectValue(v.l[i], node.d[ALL]) ELSE v.l[i]])
    ELSE IF v.t = "obj" THEN Ob(Project(v.o, node.d))
    ELSE v

\* C9: the projection the service performs returns exactly the keys named in
\* the Selection Tree: each projected row holds every selected field of the
\* source row and nothing else, list relationships reduced element by element.
C9_ProjectionExact ==
    (pc = "responded" /\ result.kind = "projected" /\ tree # None) =>
        \A i \in 1..Len(result.data) :
            result.data[i] = Project(result.rows[i], tree.d)

----------------------------------------------------------------------------
(* Claims on SpecTree *)

RECURSIVE ExpectedNode(_, _)
\* what the segments from the i-th on put under the name of the i-th
ExpectedNode(path, i) ==
    LET rest == IF i = Len(path) THEN Leaf
                ELSE Dict(S(path[i + 1].name) :> ExpectedNode(path, i + 1))
    IN  IF path[i].br THEN Dict(ALL :> rest) ELSE rest

RECURSIVE ExpectedTree(_)
\* the union of the one-path trees
ExpectedTree(paths) ==
    IF paths = <<>> THEN EmptyDict
    ELSE (S(Head(paths)[1].name) :> ExpectedNode(Head(paths), 1))
         @@ ExpectedTree(Tail(paths))

DistinctRoots(paths) ==
    \A i, j \in 1..Len(paths) : i # j => paths[i][1].name # paths[j][1].name

MixedSelector ==
    <<"[", "tenants", "]", ".", "nome", ",", "roles", ".", "nome">>

MixedTree ==
    Dict((S("tenants") :> Dict(ALL :> Dict(S("nome") :> Leaf)))
         @@ (S("roles") :> Dict(S("nome") :> Leaf)))

----------------------------------------------------------------------------
(* Claims on SpecCompile *)

\* the operator dict of the one field of the filter map
Operators == req.filter_params[1][2]

\* the column the one field of the filter map resolves to
CompiledColumn ==
    GetColumnOrRelationship(req.base, req.filter_params[1][1],
                            ServiceRelationMap(req.base)).column

ListOps == {S("in"), S("notin")}

\* the list a value of in / notin stands for
ExpectedList(value) ==
    IF value.t = "str" THEN VList(StripDropEmpty(Split(value.s, ",")))
    ELSE value

ABCString == VStr(<<"a", ",", " ", "b", " ", ",", "c">>)

ABCList == VList(<<S("a"), S("b"), S("c")>>)

\* C11: for in and notin a string value becomes the list of its
\* comma-separated tokens, trimmed and without the empty ones ("a, b ,c"
\* becomes [a, b, c]); a list or tuple is used unchanged; any other value
\* fails with InvalidOperatorValue.
C11_ListCoercion ==
    /\ pc = "filtered" =>
          \A k \in 1..Len(Operators) :
              Operators[k][1] \in ListOps =>
                  /\ Operators[k][2].t \in {"str", "list", "tuple"}
                  /\ query.where[k] =
                        [col |-> CompiledColumn, op |-> Operators[k][1][1],
                         val |-> ExpectedList(Operators[k][2])]
                  /\ Operators[k][2] = ABCString =>
                        query.where[k].val = ABCList
    /\ (pc = "failed"
          /\ \E k \in 1..Len(Operators) :
                /\ Operators[k][1] \in ListOps
                /\ Operators[k][2].t \notin {"str", "list", "tuple"}
                /\ \A j \in 1..(k - 1) :
                      Operators[j][1] \in ListOps =>
                          Operators[j][2].t \in {"str", "list", "tuple"}) =>
          /\ result.err = "InvalidOperatorValue"
          /\ result.exc = "ValueError"

C11_Witness ==
    /\ pc = "filtered"
    /\ Operators = <<<<S("in"), ABCString>>, <<S("notin"), VTuple(<<S("a")>>)>>>>
    /\ query.where[1].val = ABCList
    /\ query.where[2].val = VTuple(<<S("a")>>)

----------------------------------------------------------------------------
(* More claims on SpecTree *)

RECURSIVE Refines(_, _)
\* node b keeps everything node a specifies: a leaf may become anything, an
\* object stays an object with every key it had, recursively
Refines(a, b) ==
    a.t = "dict" =>
        /\ b.t = "dict"
        /\ \A k \in DOMAIN a.d : k \in DOMAIN b.d /\ Refines(a.d[k], b.d[k])

\* the tree built from the first k paths of the selector
TreeOfPrefix(k) ==
    PathsLoop(EmptyDict,
              SubSeq(StripDropEmpty(Split(req.select.s, ",")), 1, k))

\* C12: re-visiting a key is monotone: a later path that continues through a
\* leaf turns it into a nested object, and no path replaces a nested object
\* by a leaf or drops a key, for bare and for bracketed segments.
C12_Monotone ==
    pc = "returned" =>
        /\ \A k \in 1..Len(req.paths) :
              Refines(Dict(TreeOfPrefix(k - 1)), Dict(TreeOfPrefix(k)))
        /\ \A k \in 1..Len(req.paths) :
              Refines(Dict(ExpectedTree(<<req.paths[k]>>)), tree)

----------------------------------------------------------------------------
(* Claims on SpecRaw *)

\* C13: for a selector that is non-empty after trimming the parser returns a
\* tree with at least one key at the root, never null and never an empty
\* mapping.
C13_NonEmptyRoot ==
    (pc = "returned" /\ Strip(req.select.s) # <<>>) =>
        /\ tree # None
        /\ DOMAIN tree.d # {}

\* C13 as amended: for a selector with at least one comma-separated path that
\* is non-empty after trimming the parser returns a tree with at least one
\* key at the root; a selector of commas and blanks only gives no tree.
C13_NonBlankPath ==
    pc = "returned" =>
        IF StripDropEmpty(Split(req.select.s, ",")) # <<>>
        THEN tree # None /\ DOMAIN tree.d # {}
        ELSE tree = None

C13_Witness ==
    /\ pc = "returned"
    /\ req.select.s = <<" ", "a", ",">>
    /\ tree = Dict(S("a") :> Leaf)

\* a part that holds a bracket and is not of the form [name]
MalformedPart(part) ==
    /\ "[" \in Range(part) \/ "]" \in Range(part)
    /\ ~ListMatch(part)

\* some path of the selector has a malformed part
MalformedSelector(sel) ==
    LET fields == StripDropEmpty(Split(sel, ",")) IN
    \E i \in 1..Len(fields) :
        \E j \in 1..Len(Split(fields[i], ".")) :
            MalformedPart(Split(fields[i], ".")[j])

\* C14: a selector with malformed bracket syntax (an unclosed bracket, an
\* empty [], a bracket whose content is not a plain name) is rejected with
\* the client-input error InvalidTemplateSelector and no tree is built.
C14_MalformedRejected ==
    (pc = "returned" /\ MalformedSelector(req.select.s)) =>
        /\ tree = None
        /\ result # None
        /\ result.err = "InvalidTemplateSelector"

----------------------------------------------------------------------------
(* More claims on SpecSelect *)

\* the names an include parameter requests: its comma-separated tokens,
\* trimmed, the empty ones dropped
RequestedNames(include) == Range(StripDropEmpty(IncludeList(include)))

\* C15: include is read as comma-separated relationship names, each trimmed,
\* empty tokens dropped: "a, b" and "a,,b" request exactly a and b, on the
\* list operation and on get_by_id.
C15_IncludeTrimmed ==
    (/\ pc = "responded"
     /\ RequestedNames(req.include) # {}
     /\ RequestedNames(req.include) \subseteq
            {S(r) : r \in RelKeys(req.base)}) =>
        /\ result.err # "InvalidInclude"
        /\ \A r \in RelKeys(req.base) :
              EffectiveStrategy(query, <<req.base, r>>) =
                  IF S(r) \in RequestedNames(req.include)
                  THEN "selectinload" ELSE "noload"

----------------------------------------------------------------------------
(* Claims on SpecParse *)

\* the parameter's key follows filter[<field>][<operator>]
IsFilterParam(item) == FilterKeyMatch(item[1]).matched

MatchingParams == {i \in 1..Len(req.params) : IsFilterParam(req.params[i])}

\* C16: parse_filters never raises; a key that does not follow
\* filter[<field>][<operator>] is ignored, the filter map holds exactly the
\* fields and operators of the keys that do, and it is the map the matching
\* parameters alone give, so a key outside the grammar has no later effect.
C16_OnlyMatchingKeys ==
    pc = "parsed" =>
        /\ DictKeys(filters) =
              {FilterKeyMatch(req.params[i][1]).field : i \in MatchingParams}
        /\ \A f \in DictKeys(filters) :
              DictKeys(DictGet(filters, f)) =
                  {Lower(FilterKeyMatch(req.params[i][1]).operator) :
                      i \in {j \in MatchingParams :
                                FilterKeyMatch(req.params[j][1]).field = f}}
        /\ filters = ParseFiltersOf(SelectSeq(req.params, IsFilterParam))

C16_Witness ==
    /\ pc = "parsed"
    /\ Len(req.params) = 2
    /\ MatchingParams = {2}
    /\ req.params[1][1] = <<"filter", "[", "title", "]">>
    /\ req.params[2] = <<FilterKey(TitleField, "EQ"), S("true")>>
    /\ filters = <<<<TitleField, <<<<S("eq"), VBool(TRUE)>>>>>>>>

----------------------------------------------------------------------------
(* More claims on SpecCompile *)

NoSortField == req.sort_by = None \/ req.sort_by.s = <<>>

\* C17: apply_sorting with an empty or absent sort_by returns the query as it
\* received it: no join, no ordering and no error, whatever sort_dir is.
C17_EmptySortNoOp ==
    [][(pc = "filtered" /\ NoSortField) =>
            (pc' = "sorted" /\ query' = query)]_vars

C17_Witness ==
    /\ pc = "sorted"
    /\ req.sort_by = VStr(<<>>)
    /\ req.sort_dir = VStr(S("sideways"))
    /\ query = result.before
    /\ query.where # <<>>
    /\ query.order = <<>>

----------------------------------------------------------------------------
(* Claims on SpecExcluded *)

NestedField == Len(Split(req.filter_params[1][1], ".")) > 1

\* the predicates of the statement, all on the one field
AllPredicates == 1..Len(query.where)

NullAccepting(op, value) ==
    \/ op = S("isnull") /\ (value = VBool(TRUE) \/
                            (value.t = "str" /\ Lower(value.s) \in Truthy) \/
                            (value.t \in {"list", "tuple"} /\ value.l # <<>>))
    \/ op = S("eq") /\ value = None
    \/ op = S("notin") /\ ExpectedList(value).l = <<>>

----------------------------------------------------------------------------
(* Claims on SpecAccess *)

Answered == pc = "responded" /\ result.status = 200

\* the statement restricts the owner to the caller
OwnerPredicate(r) ==
    [col |-> <<"WebLink", "usuario_id">>, op |-> "eq",
     val |-> VUuid(CallerId(r))]

\* C20: for a normal user the web link list returns only links whose
\* usuario_id is the caller's id, whatever filter (also on usuario_id),
\* search and sort parameters the client sends; for an administrator the
\* statement carries no restriction of the owner to the caller.
C20_OwnLinksOnly ==
    Answered =>
        IF "ADMIN" \in Permissoes(req)
        THEN OwnerPredicate(req) \notin Range(query.where)
        ELSE /\ OwnerPredicate(req) \in Range(query.where)
             /\ \A i \in 1..Len(result.rows) :
                   result.rows[i].usuario_id.v = CallerId(req)

C20_Witness ==
    /\ Answered
    /\ req.caller = "user"
    /\ req.search # None
    /\ Len(req.params) = 1
    /\ req.params[1] = <<FilterKey(OwnerField, "eq"), S("u2")>>
    /\ Len(result.rows) = 1
    /\ result.rows[1].usuario_id.v = "u1"

----------------------------------------------------------------------------
(* Claims on the load options and the tree of one list request *)

\* the relationships of the base entity that are top-level keys of the tree
\* the results are projected with
TreeRelationships(r) ==
    LET t == ParseSelectFields(r.select)
    IN  IF t = None THEN {}
        ELSE {k \in RelKeys(r.base) : S(k) \in DOMAIN t.d}

----------------------------------------------------------------------------
(* Claims on the order of the paths of a selector *)

\* the selectors made of the same paths in another order
Reordered(paths) ==
    {[i \in 1..Len(paths) |-> paths[f[i]]] : f \in Permutations(1..Len(paths))}

\* C24: the tree built from a selector does not depend on the order of its
\* comma-separated paths: every permutation of the paths parses to the same
\* tree.
C24_OrderIndependent ==
    pc = "returned" =>
        \A other \in Reordered(req.paths) :
            ParseSelectFields(VStr(SelectorText(other, FALSE))) = tree

----------------------------------------------------------------------------
(* Claims on membership filters, from the query string to the statement *)

MembershipKeys == {FilterKey(TitleField, "in"), FilterKey(TitleField, "notin")}

\* the request carries one parameter, a membership filter on a valid field
\* with a non-empty raw value, and no sort field
OneMembershipParam(r) ==
    /\ r.sort_by = None
    /\ Len(r.params) = 1
    /\ r.params[1][1] \in MembershipKeys
    /\ r.params[1][2] # <<>>

\* the predicate over the trimmed comma-separated tokens of the raw value
TokenPredicate(param) ==
    [col |-> <<"WebLink", "title">>,
     op |-> IF param[1] = FilterKey(TitleField, "in") THEN "in" ELSE "notin",
     val |-> VList(StripDropEmpty(Split(param[2], ",")))]

\* C25: parse_filters then apply_filters compile filter[f][in]=v and
\* filter[f][notin]=v on a valid field, for every non-empty raw v (also a
\* single token such as 1, 0, true or null), to the membership predicate over
\* the trimmed tokens of v and never to an error.
C25_MembershipEndToEnd ==
    (OneMembershipParam(req) /\ pc \in {"filtered", "sorted", "planned", "responded"}) =>
        /\ TokenPredicate(req.params[1]) \in Range(query.where)
        /\ pc = "responded" => result.status = 200

----------------------------------------------------------------------------
(* Claims on the sensitive field of Usuario *)

\* C26: no answer of the Usuario list or get-by-id operations contains the
\* senha field, whatever include and select parameters are sent: the field is
\* stripped on the mapper path and on the select-projection path alike.
C26_NoSenha ==
    (pc = "responded" /\ req.base = "Usuario" /\ result.status = 200) =>
        \A i \in 1..Len(ResponseItems(req, result)) :
            "senha" \notin DOMAIN ResponseItems(req, result)[i]

----------------------------------------------------------------------------
(* Password reset: request_password_reset and confirm_password_reset, each
   confirm request on a database session of its own. Tokens are taken within
   their hour of validity. *)

MaxCalls == 2
MaxTokens == 2

\* secrets.token_urlsafe(32): the n-th token generated; none is numbered 0
TokenValue(n) == <<"t", n>>

NovaSenhas == {"s1", "s2"}

IdleCall ==
    [pc |-> "idle", token |-> None, nova_senha |-> None,
     reset_token |-> 0, user |-> None, status |-> 0]

\* the rows the first query of confirm_password_reset matches: token equal,
\* used false, flg_ativo true
ValidTokenRows(d, token) ==
    {i \in 1..Len(d.tokens) :
        /\ d.tokens[i].token = token
        /\ ~d.tokens[i].used
        /\ d.tokens[i].flg_ativo}

\* conta/service.py 300-335: the unused tokens of the user are marked used,
\* a new one is stored, in one transaction
RequestPasswordReset(u) ==
    /\ Len(db.tokens) < MaxTokens
    /\ db.usuarios[u].flg_ativo
    /\ LET invalidated ==
             [i \in 1..Len(db.tokens) |->
                IF db.tokens[i].usuario_id = u /\ ~db.tokens[i].used
                THEN [db.tokens[i] EXCEPT !.used = TRUE]
                ELSE db.tokens[i]]
           reset_token ==
             [usuario_id |-> u, token |-> TokenValue(Len(db.tokens) + 1),
              used |-> FALSE, flg_ativo |-> TRUE]
       IN  db' = [db EXCEPT !.tokens = Append(invalidated, reset_token)]
    /\ UNCHANGED <<pc, req, filters, query, tree, result, issued, calls>>

\* conta/service.py 371-383: the request arrives and its session reads the
\* token row; 400 when no row matches
FindToken(c, token, nova_senha) ==
    /\ calls[c].pc = "idle"
    /\ LET rows == ValidTokenRows(db, token)
       IN  IF rows = {}
           THEN calls' = [calls EXCEPT ![c] =
                    [@ EXCEPT !.pc = "done", !.token = token,
                              !.nova_senha = nova_senha, !.status = 400]]
           ELSE calls' = [calls EXCEPT ![c] =
                    [@ EXCEPT !.pc = "found", !.token = token,
                              !.nova_senha = nova_senha,
                              !.reset_token = CHOOSE i \in rows : TRUE]]
    /\ UNCHANGED <<pc, req, filters, query, tree, result, db, issued>>

\* conta/service.py 385-391: the session reads the user of the token
FindUser(c) ==
    /\ calls[c].pc = "found"
    /\ LET u == db.tokens[calls[c].reset_token].usuario_id
       IN  IF ~db.usuarios[u].flg_ativo
           THEN calls' = [calls EXCEPT ![c] =
                    [@ EXCEPT !.pc = "done", !.status = 400]]
           ELSE calls' = [calls EXCEPT ![c] =
                    [@ EXCEPT !.pc = "loaded", !.user = u]]
    /\ UNCHANGED <<pc, req, filters, query, tree, result, db, issued>>

\* conta/service.py 393-405: the flush writes the password of the user row
\* and used = True of the token row by primary key, and commits
CommitReset(c) ==
    /\ calls[c].pc = "loaded"
    /\ db' = [db EXCEPT !.usuarios[calls[c].user].senha = calls[c].nova_senha,
                        !.tokens[calls[c].reset_token].used = TRUE]
    /\ calls' = [calls EXCEPT ![c] = [@ EXCEPT !.pc = "done", !.status = 200]]
    /\ UNCHANGED <<pc, req, filters, query, tree, result, issued>>

InitReset ==
    /\ pc = "resetting"
    /\ req = None
    /\ filters = << >>
    /\ query = EmptySelect
    /\ tree = None
    /\ result = None
    /\ db = InitialDb
    /\ issued = {}
    /\ calls = [c \in 1..MaxCalls |-> IdleCall]

NextReset ==
    \/ \E u \in {"u1", "u2"} : RequestPasswordReset(u)
    \/ \E c \in 1..MaxCalls, n \in 0..MaxTokens, nova_senha \in NovaSenhas :
          FindToken(c, TokenValue(n), nova_senha)
    \/ \E c \in 1..MaxCalls : FindUser(c)
    \/ \E c \in 1..MaxCalls : CommitReset(c)

SpecReset == InitReset /\ [][NextReset]_vars

----------------------------------------------------------------------------
(* Claims on the stored users and links *)

\* C21: after an administrator deactivates a user, that user cannot log in
\* and loses access to all endpoints: the request the user sends right after
\* a successful deactivation, with an old access token or a new login, is
\* rejected with 401 or 403.
C21_DeactivatedRejected ==
    [][(/\ req # None
        /\ req.op = "desativar"
        /\ result.status = 200
        /\ CallerId(req') = req.id)
       => result'.status \in {401, 403}]_vars

\* C22: updating an existing link owned by the caller with valid data answers
\* 200 with the view of the updated link, never an internal server error.
C22_OwnLinkUpdated ==
    (/\ req # None
     /\ req.op = "update"
     /\ req.base = "WebLink"
     /\ req.id \in Links
     /\ db.links[req.id].usuario_id = CallerId(req)
     /\ result.status \notin {401, 403})
    => (result.status = 200 /\ result.view # None)

\* C27: get-by-id returns a link and delete soft-deletes a link only when the
\* caller owns the link or holds ADMIN.
C27_OwnerOrAdmin ==
    (/\ req # None
     /\ req.base = "WebLink"
     /\ req.op \in {"get_by_id", "delete"}
     /\ result.status \in {200, 204})
    => (db.links[req.id].usuario_id = CallerId(req) \/ "ADMIN" \in Permissoes(req))

\* C28: no list operation returns an entity that was soft-deleted
\* (flg_excluido true), whoever the caller is.
C28_DeletedNotListed ==
    (req # None /\ req.op = "list" /\ result.status = 200)
    => \A i \in 1..Len(result.rows) : ~result.rows[i].flg_excluido

----------------------------------------------------------------------------
(* Claims on the password reset *)

\* C29: a password reset token changes a password at most once: of the
\* confirm_password_reset requests carrying the same token, run one after the
\* other or concurrently on separate sessions, at most one succeeds.
C29_TokenUsedOnce ==
    pc = "resetting" =>
        \A n \in 1..MaxTokens :
            Cardinality({c \in 1..MaxCalls :
                            /\ calls[c].status = 200
                            /\ calls[c].token = TokenValue(n)}) <= 1

====
